---- MODULE Spec2Model ----
(***************************************************************************)
(* A model of backend/repository/data_repository.py: the SQLite-backed     *)
(* DataRepository (schema creation, synthetic CSV generation, CSV          *)
(* validation, idempotent seeding, the read queries and the append-only    *)
(* writes).                                                                *)
(*                                                                         *)
(* Conventions.                                                            *)
(*  - A Python float is a rational [num, den]; comparisons cross-multiply. *)
(*  - A date text is a sequence of one-character strings, so that SQLite's *)
(*    BINARY text comparison and the two date parsers (datetime.strptime   *)
(*    and SQLite's date()) are computed character by character.            *)
(*  - An optional value is Nothing or Some(v); a missing CSV field and a   *)
(*    NULL text are NullText; "None" is the absence of an error.           *)
(*  - Timestamps filled by DEFAULT CURRENT_TIMESTAMP are never read by the *)
(*    repository and are left out of the rows.                             *)
(*  - A call is one action where the calls come one after another, and     *)
(*    seed_synthetic_data() is also modelled statement by statement, for   *)
(*    processes that share the CSV and the database file.                  *)
(***************************************************************************)
EXTENDS Integers, Sequences, FiniteSets, TLC

VARIABLES
    settings,     \* the frozen Settings the repository was constructed with
    file,         \* the CSV at synthetic_dataset_path: NoFile or [exists, header, lines, mtime]
    clock,        \* file-system clock: the number of writes to the CSV so far
    db,           \* the SQLite store: schema, the six tables, sqlite_sequence
    call,         \* the last repository call: [op, args]
    ret,          \* its outcome: the returned value or the raised error
    seeded,       \* history: mtime of the CSV loaded by the last successful seed
    workers       \* the processes inside seed_synthetic_data(): where each one is

vars == <<settings, file, clock, db, call, ret, seeded, workers>>

None == "None"
NullText == <<None>>
Nothing == [nothing |-> TRUE]
Some(v) == [some |-> v]
NoFile == [exists |-> FALSE]

-----------------------------------------------------------------------------
(* Floats as rationals.                                                    *)

Rat(n, d) == [num |-> n, den |-> d]
RatLE(a, b) == a.num * b.den <= b.num * a.den
RatLT(a, b) == a.num * b.den < b.num * a.den

-----------------------------------------------------------------------------
(* Text and dates.                                                         *)

Digits == <<"0", "1", "2", "3", "4", "5", "6", "7", "8", "9">>
IsDigit(c) == \E i \in 1..10 : Digits[i] = c
DigitValue(c) == (CHOOSE i \in 1..10 : Digits[i] = c) - 1

\* The byte order of the characters that occur in date texts (ASCII).
Ord(c) == IF c = " " THEN 32 ELSE IF c = "-" THEN 45 ELSE 48 + DigitValue(c)

RECURSIVE TextLess(_, _)
\* SQLite's BINARY collation (memcmp, then the shorter text first).
TextLess(a, b) ==
    IF b = <<>> THEN FALSE
    ELSE IF a = <<>> THEN TRUE
    ELSE IF Ord(Head(a)) # Ord(Head(b)) THEN Ord(Head(a)) < Ord(Head(b))
    ELSE TextLess(Tail(a), Tail(b))

TextLessEq(a, b) == a = b \/ TextLess(a, b)

RECURSIVE DecimalValue(_)
DecimalValue(t) ==
    IF t = <<>> THEN 0
    ELSE 10 * DecimalValue(SubSeq(t, 1, Len(t) - 1)) + DigitValue(t[Len(t)])

AllDigits(t) == \A i \in 1..Len(t) : IsDigit(t[i])

IsLeap(y) == (y % 4 = 0 /\ y % 100 # 0) \/ y % 400 = 0
DaysInMonth(y, m) ==
    IF m = 2 THEN (IF IsLeap(y) THEN 29 ELSE 28)
    ELSE IF m \in {4, 6, 9, 11} THEN 30 ELSE 31

RECURSIVE DaysBeforeMonth(_, _)
DaysBeforeMonth(y, m) ==
    IF m = 1 THEN 0 ELSE DaysBeforeMonth(y, m - 1) + DaysInMonth(y, m - 1)

\* datetime.date.toordinal(): days since 0001-01-01, that day being 1.
ToOrdinal(d) ==
    LET y == d.y - 1
    IN  y * 365 + (y \div 4) - (y \div 100) + (y \div 400)
          + DaysBeforeMonth(d.y, d.m) + d.d

\* datetime.date.weekday(): Monday is 0, Sunday is 6.
Weekday(d) == (ToOrdinal(d) + 6) % 7

RECURSIVE DateMinusDays(_, _)
\* date - timedelta(days = n), n >= 0.
DateMinusDays(d, n) ==
    IF n = 0 THEN d
    ELSE IF d.d > 1 THEN DateMinusDays([d EXCEPT !.d = d.d - 1], n - 1)
    ELSE IF d.m > 1
         THEN DateMinusDays([y |-> d.y, m |-> d.m - 1,
                             d |-> DaysInMonth(d.y, d.m - 1)], n - 1)
         ELSE DateMinusDays([y |-> d.y - 1, m |-> 12, d |-> 31], n - 1)

RECURSIVE DatePlusDays(_, _)
DatePlusDays(d, n) ==
    IF n = 0 THEN d
    ELSE IF d.d < DaysInMonth(d.y, d.m)
         THEN DatePlusDays([d EXCEPT !.d = d.d + 1], n - 1)
    ELSE IF d.m < 12
         THEN DatePlusDays([y |-> d.y, m |-> d.m + 1, d |-> 1], n - 1)
         ELSE DatePlusDays([y |-> d.y + 1, m |-> 1, d |-> 1], n - 1)

TwoDigits(n) == <<Digits[(n \div 10) + 1], Digits[(n % 10) + 1]>>
FourDigits(n) ==
    <<Digits[(n \div 1000) + 1], Digits[((n \div 100) % 10) + 1],
      Digits[((n \div 10) % 10) + 1], Digits[(n % 10) + 1]>>

\* datetime.date.isoformat(): YYYY-MM-DD, zero padded.
IsoFormat(d) == FourDigits(d.y) \o <<"-">> \o TwoDigits(d.m) \o <<"-">> \o TwoDigits(d.d)

\* The positions of the "-" characters of a text.
DashPositions(t) == {i \in 1..Len(t) : t[i] = "-"}

\* The three fields of a text with exactly two dashes.
DateFields(t) ==
    LET p == CHOOSE q \in DashPositions(t) : \A r \in DashPositions(t) : q <= r
        s == CHOOSE q \in DashPositions(t) : \A r \in DashPositions(t) : q >= r
    IN  <<SubSeq(t, 1, p - 1), SubSeq(t, p + 1, s - 1), SubSeq(t, s + 1, Len(t))>>

\* The texts the directive %m accepts: 1[0-2]|0[1-9]|[1-9].
MatchesMonth(f) ==
    /\ Len(f) \in {1, 2} /\ AllDigits(f)
    /\ DecimalValue(f) \in 1..12

\* The texts the directive %d accepts: 3[01]|[12]\d|0[1-9]|[1-9]| [1-9].
MatchesDay(f) ==
    \/ Len(f) \in {1, 2} /\ AllDigits(f) /\ DecimalValue(f) \in 1..31
    \/ Len(f) = 2 /\ f[1] = " " /\ IsDigit(f[2]) /\ DigitValue(f[2]) \in 1..9

DayValue(f) == IF f[1] = " " THEN DigitValue(f[2]) ELSE DecimalValue(f)

\* datetime.strptime(text, "%Y-%m-%d"): the date, or Nothing for ValueError.
\* %Y takes exactly four digits; %m and %d take one or two.
Strptime(t) ==
    IF Cardinality(DashPositions(t)) # 2 THEN Nothing
    ELSE LET f == DateFields(t)
         IN  IF /\ Len(f[1]) = 4 /\ AllDigits(f[1]) /\ DecimalValue(f[1]) >= 1
                /\ MatchesMonth(f[2]) /\ MatchesDay(f[3])
                /\ DayValue(f[3]) <= DaysInMonth(DecimalValue(f[1]), DecimalValue(f[2]))
             THEN Some([y |-> DecimalValue(f[1]), m |-> DecimalValue(f[2]),
                        d |-> DayValue(f[3])])
             ELSE Nothing

\* SQLite's parse of a YYYY-MM-DD time value: the widths are fixed, and the
\* day is checked against the month's length only up to 31.
SqliteParseDate(t) ==
    IF /\ Len(t) = 10 /\ t[5] = "-" /\ t[8] = "-"
       /\ AllDigits(SubSeq(t, 1, 4)) /\ AllDigits(SubSeq(t, 6, 7))
       /\ AllDigits(SubSeq(t, 9, 10))
       /\ DecimalValue(SubSeq(t, 6, 7)) \in 1..12
       /\ DecimalValue(SubSeq(t, 9, 10)) \in 1..31
    THEN LET y == DecimalValue(SubSeq(t, 1, 4))
             m == DecimalValue(SubSeq(t, 6, 7))
             d == DecimalValue(SubSeq(t, 9, 10))
             last == DaysInMonth(y, m)
         IN  IF d <= last THEN Some([y |-> y, m |-> m, d |-> d])
             ELSE Some(DatePlusDays([y |-> y, m |-> m, d |-> last], d - last))
    ELSE Nothing

\* SQLite's date(t, '-n day'): Nothing (NULL) when t is no time value.
SqliteDateMinusDays(t, n) ==
    IF SqliteParseDate(t) = Nothing \/ n < 0 THEN Nothing
    ELSE Some(IsoFormat(DateMinusDays(SqliteParseDate(t).some, n)))

\* str(n) for an integer: its decimal digits, "-" first when negative.
RECURSIVE NatStr(_)
NatStr(n) == IF n < 10 THEN <<Digits[n + 1]>> ELSE NatStr(n \div 10) \o <<Digits[(n % 10) + 1]>>
Str(n) == IF n < 0 THEN <<"-">> \o NatStr(0 - n) ELSE NatStr(n)

RECURSIVE Strip(_)
\* str.strip() on the characters that occur here: blanks at both ends go.
Strip(t) ==
    IF t = <<>> THEN t
    ELSE IF Head(t) = " " THEN Strip(Tail(t))
    ELSE IF t[Len(t)] = " " THEN Strip(SubSeq(t, 1, Len(t) - 1))
    ELSE t

\* int(text): blanks around it are dropped, a sign may lead, the rest must
\* be digits; Nothing stands for ValueError.
PyInt(t) ==
    LET s == Strip(t)
        signed == s # <<>> /\ Head(s) \in {"-", "+"}
        body == IF signed THEN Tail(s) ELSE s
    IN  IF body = <<>> \/ ~AllDigits(body) THEN Nothing
        ELSE IF signed /\ Head(s) = "-" THEN Some(0 - DecimalValue(body))
        ELSE Some(DecimalValue(body))

-----------------------------------------------------------------------------
(* Class constants of DataRepository.                                      *)

SYNTHETIC_COLUMNS == <<"room_id", "date", "time_slot", "occupied">>
SYNTHETIC_WEEKDAY_PROBABILITY_RANGE == <<Rat(65, 100), Rat(75, 100)>>
SYNTHETIC_WEEKEND_PROBABILITY_RANGE == <<Rat(30, 100), Rat(40, 100)>>

ROOM_CATALOG ==
    << [id |-> 1,  name |-> "Room A", capacity |-> 30, room_type |-> "Classroom",  location |-> "Block 1"],
       [id |-> 2,  name |-> "Room B", capacity |-> 50, room_type |-> "Auditorium", location |-> "Block 1"],
       [id |-> 3,  name |-> "Room C", capacity |-> 20, room_type |-> "Lab",        location |-> "Block 2"],
       [id |-> 4,  name |-> "Room D", capacity |-> 40, room_type |-> "Classroom",  location |-> "Block 2"],
       [id |-> 5,  name |-> "Room E", capacity |-> 25, room_type |-> "Seminar",    location |-> "Block 3"],
       [id |-> 6,  name |-> "Room F", capacity |-> 60, room_type |-> "Auditorium", location |-> "Block 3"],
       [id |-> 7,  name |-> "Room G", capacity |-> 35, room_type |-> "Classroom",  location |-> "Block 4"],
       [id |-> 8,  name |-> "Room H", capacity |-> 45, room_type |-> "Lab",        location |-> "Block 4"],
       [id |-> 9,  name |-> "Room I", capacity |-> 30, room_type |-> "Seminar",    location |-> "Block 5"],
       [id |-> 10, name |-> "Room J", capacity |-> 55, room_type |-> "Auditorium", location |-> "Block 5"] >>

CatalogRoomIds == {ROOM_CATALOG[i].id : i \in 1..Len(ROOM_CATALOG)}

-----------------------------------------------------------------------------
(* Configuration checks and the synthetic CSV.                             *)

\* _validate_probability_range: TRUE when the value is inside the band.
ValidateProbabilityRange(value, lower, upper) == RatLE(lower, value) /\ RatLE(value, upper)

\* A validation that lets every configuration through.
AcceptAnyConfiguration(s) == None

\* _validate_synthetic_configuration: "None", or the message of the RuntimeError.
ValidateSyntheticConfiguration(s) ==
    IF s.synthetic_seed_days <= 0
    THEN "SYNTHETIC_SEED_DAYS must be greater than zero"
    ELSE IF s.synthetic_time_slots = <<>>
    THEN "SYNTHETIC_TIME_SLOTS must not be empty"
    ELSE IF ~ValidateProbabilityRange(s.synthetic_weekday_occupied_probability,
                                      SYNTHETIC_WEEKDAY_PROBABILITY_RANGE[1],
                                      SYNTHETIC_WEEKDAY_PROBABILITY_RANGE[2])
    THEN "SYNTHETIC_WEEKDAY_OCCUPIED_PROBABILITY out of range"
    ELSE IF ~ValidateProbabilityRange(s.synthetic_weekend_occupied_probability,
                                      SYNTHETIC_WEEKEND_PROBABILITY_RANGE[1],
                                      SYNTHETIC_WEEKEND_PROBABILITY_RANGE[2])
    THEN "SYNTHETIC_WEEKEND_OCCUPIED_PROBABILITY out of range"
    ELSE None

\* _expected_synthetic_row_count
ExpectedSyntheticRowCount(s) ==
    Len(ROOM_CATALOG) * s.synthetic_seed_days * Len(s.synthetic_time_slots)

RECURSIVE RandomState(_, _)
\* random.Random(seed): the generator's state after n draws. The Mersenne
\* Twister is abstracted by a fixed congruential stream; what is kept is that
\* the n-th draw is a function of the seed and of n only.
RandomState(seed, n) ==
    IF n = 0 THEN seed % 100 ELSE (RandomState(seed, n - 1) * 37 + 11) % 100

\* The n-th value of rng.random(), a float in [0, 1).
RandomDraw(seed, n) == Rat(RandomState(seed, n), 100)

\* The k-th data row (k = 0, 1, ...) written by the three nested loops of
\* _generate_synthetic_dataset_csv: days outermost, then rooms, then slots;
\* one draw per row, in that order.
GeneratedRow(s, k) ==
    LET slots == s.synthetic_time_slots
        perDay == Len(ROOM_CATALOG) * Len(slots)
        offset == k \div perDay
        room == ROOM_CATALOG[((k % perDay) \div Len(slots)) + 1]
        slot == slots[(k % Len(slots)) + 1]
        end_date == Strptime(s.synthetic_reference_end_date).some
        start_date == DateMinusDays(end_date, s.synthetic_seed_days - 1)
        current_day == DatePlusDays(start_date, offset)
        occupied_probability ==
            IF Weekday(current_day) < 5
            THEN s.synthetic_weekday_occupied_probability
            ELSE s.synthetic_weekend_occupied_probability
        occupied == IF RatLT(RandomDraw(s.synthetic_random_seed, k + 1), occupied_probability)
                    THEN 1 ELSE 0
    IN  [room_id |-> Str(room.id), date |-> IsoFormat(current_day),
         time_slot |-> slot, occupied |-> Str(occupied)]

\* _generate_synthetic_dataset_csv: the content written (opened with "w").
GenerateSyntheticDatasetCsv(s) ==
    [header |-> SYNTHETIC_COLUMNS,
     lines |-> [n \in 1..ExpectedSyntheticRowCount(s) |-> GeneratedRow(s, n - 1)]]

\* The generator run whether or not the file exists.
RegenerateSyntheticDataset(s, f, now) ==
    [exists |-> TRUE, header |-> GenerateSyntheticDatasetCsv(s).header,
     lines |-> GenerateSyntheticDatasetCsv(s).lines, mtime |-> now + 1]

\* _ensure_synthetic_dataset_exists: the file after the call. An existing
\* file is returned as it is; a new one is stamped with the next clock tick.
EnsureSyntheticDatasetExists(s, f, now) ==
    IF f.exists THEN f
    ELSE [exists |-> TRUE,
          header |-> GenerateSyntheticDatasetCsv(s).header,
          lines |-> GenerateSyntheticDatasetCsv(s).lines,
          mtime |-> now + 1]

\* open(path, "x"): a file that exists is left as it is.
OpenExclusively(f, now) ==
    IF f.exists THEN f
    ELSE [exists |-> TRUE, header |-> <<>>, lines |-> <<>>, mtime |-> now + 1]

\* synthetic_dataset_path.open("w"): the file is created, or cut to length
\* zero when it exists; what the writer puts out stays in its buffer.
OpenForWriting(f, now) ==
    [exists |-> TRUE, header |-> <<>>, lines |-> <<>>, mtime |-> now + 1]

\* The end of the with-block of _generate_synthetic_dataset_csv: the header
\* and the rows reach the file as the handle is closed.
CloseWritten(s, now) ==
    [exists |-> TRUE,
     header |-> GenerateSyntheticDatasetCsv(s).header,
     lines |-> GenerateSyntheticDatasetCsv(s).lines,
     mtime |-> now + 1]

-----------------------------------------------------------------------------
(* The CSV as csv.DictReader sees it, and _load_synthetic_rows_from_csv.   *)

\* An empty physical line; csv.DictReader skips it without yielding a row.
BlankLine == [blank |-> TRUE]
IsBlankLine(l) == "blank" \in DOMAIN l

\* The rows DictReader yields: the non-empty lines after the header.
DictReaderRows(f) == SelectSeq(f.lines, LAMBDA l : ~IsBlankLine(l))

\* raw_row.get(column) is None or str(raw_row[column]).strip() == ""
IsMissing(field) == field = NullText \/ Strip(field) = <<>>

\* The list missing_columns of one raw row.
MissingColumns(raw) ==
    SelectSeq(SYNTHETIC_COLUMNS,
              LAMBDA c : IsMissing(IF c = "room_id" THEN raw.room_id
                                   ELSE IF c = "date" THEN raw.date
                                   ELSE IF c = "time_slot" THEN raw.time_slot
                                   ELSE raw.occupied))

\* The checks of one raw row in the order of the loop body: "None" when the
\* row is accepted, else the kind of the RuntimeError raised.
RowError(s, raw, seen_keys) ==
    LET allowed_slots == {s.synthetic_time_slots[i] : i \in 1..Len(s.synthetic_time_slots)}
    IN  IF MissingColumns(raw) # <<>> THEN "missing_values"
        ELSE IF PyInt(raw.room_id) = Nothing \/ PyInt(raw.occupied) = Nothing
        THEN "invalid_value_types"
        ELSE IF PyInt(raw.room_id).some \notin CatalogRoomIds THEN "room_id_out_of_range"
        ELSE IF Strptime(raw.date) = Nothing THEN "invalid_date_format"
        ELSE IF raw.time_slot \notin allowed_slots THEN "invalid_time_slot"
        ELSE IF PyInt(raw.occupied).some \notin {0, 1} THEN "occupied_not_0_or_1"
        ELSE IF <<PyInt(raw.room_id).some, raw.date, raw.time_slot>> \in seen_keys
        THEN "duplicate_key"
        ELSE None

\* The tuple appended to rows for an accepted raw row.
ParsedRow(raw) ==
    [room_id |-> PyInt(raw.room_id).some, date |-> raw.date,
     time_slot |-> raw.time_slot, occupied |-> PyInt(raw.occupied).some]

RowKey(r) == <<r.room_id, r.date, r.time_slot>>

RECURSIVE ValidateRows(_, _, _, _, _)
\* for line_no, raw_row in enumerate(reader, start=2): the k-th yielded row
\* is reported as line k + 1.
ValidateRows(s, raws, k, seen_keys, rows) ==
    IF k > Len(raws) THEN [ok |-> TRUE, rows |-> rows]
    ELSE IF RowError(s, raws[k], seen_keys) # None
    THEN [ok |-> FALSE, kind |-> RowError(s, raws[k], seen_keys), line |-> k + 1]
    ELSE ValidateRows(s, raws, k + 1,
                      seen_keys \cup {RowKey(ParsedRow(raws[k]))},
                      Append(rows, ParsedRow(raws[k])))

\* The validator without the comparison of len(rows) with the expected count.
LoadRowsOfAnyCount(s, f) ==
    IF ~f.exists THEN [ok |-> FALSE, kind |-> "dataset_not_found"]
    ELSE IF f.header # SYNTHETIC_COLUMNS THEN [ok |-> FALSE, kind |-> "columns"]
    ELSE ValidateRows(s, DictReaderRows(f), 1, {}, <<>>)

\* _load_synthetic_rows_from_csv: [ok, rows], or [ok, kind, line] for a
\* RuntimeError that names a line and [ok, kind] for one that names none.
LoadSyntheticRowsFromCsv(s, f) ==
    IF ~f.exists THEN [ok |-> FALSE, kind |-> "dataset_not_found"]
    ELSE IF f.header # SYNTHETIC_COLUMNS THEN [ok |-> FALSE, kind |-> "columns"]
    ELSE LET r == ValidateRows(s, DictReaderRows(f), 1, {}, <<>>)
         IN  IF ~r.ok THEN r
             ELSE IF Len(r.rows) # ExpectedSyntheticRowCount(s)
             THEN [ok |-> FALSE, kind |-> "row_count"]
             ELSE r

-----------------------------------------------------------------------------
(* The SQLite store.                                                       *)

TableNames == {"Rooms", "BookingHistory", "Requests", "AllocationLogs",
               "Predictions", "DemandForecastLogs"}
IndexNames == {"idx_requests_date_slot_status", "idx_booking_room_slot_date",
               "idx_booking_unique_room_date_slot", "idx_predictions_room_date_slot"}

\* The columns CREATE TABLE Requests declares.
RequestColumns == {"id", "requested_capacity", "requested_date", "requested_time_slot",
                   "priority_weight", "status", "stakeholder_id"}

\* The database file sqlite3.connect creates when none exists: no table.
\* request_columns is what PRAGMA table_info(Requests) lists.
EmptyStore ==
    [tables |-> {}, indexes |-> {}, request_columns |-> {},
     Rooms |-> {}, BookingHistory |-> {}, Requests |-> {},
     AllocationLogs |-> {}, Predictions |-> {}, DemandForecastLogs |-> {},
     sqlite_sequence |-> [t \in TableNames |-> 0]]

\* The outcome of a statement: the store after it and None, or the store as
\* the failed statement left it and the sqlite3.Error / RuntimeError raised.
Done(d) == [db |-> d, error |-> None]
Raise(d, e) == [db |-> d, error |-> e]

NoSuchTable(d, t) == Raise(d, "no such table")

\* INTEGER PRIMARY KEY AUTOINCREMENT: one more than the largest id the table
\* ever handed out.
NextId(d, t) == d.sqlite_sequence[t] + 1

Max(a, b) == IF a >= b THEN a ELSE b

\* INSERT OR IGNORE INTO Rooms (id, name, capacity, room_type, location)
InsertOrIgnoreRoom(d, room) ==
    IF "Rooms" \notin d.tables THEN NoSuchTable(d, "Rooms")
    ELSE IF room.capacity <= 0 \/ \E r \in d.Rooms : r.id = room.id THEN Done(d)
    ELSE Done([d EXCEPT !.Rooms = @ \cup {room},
                        !.sqlite_sequence["Rooms"] = Max(@, room.id)])

\* INSERT OR IGNORE INTO a BookingHistory that has no unique index.
InsertBookingUnindexed(d, row) ==
    IF "BookingHistory" \notin d.tables THEN NoSuchTable(d, "BookingHistory")
    ELSE IF row.occupied \notin {0, 1} THEN Done(d)
    ELSE IF ~\E r \in d.Rooms : r.id = row.room_id
    THEN Raise(d, "FOREIGN KEY constraint failed")
    ELSE Done([d EXCEPT
                 !.BookingHistory = @ \cup
                     {[id |-> NextId(d, "BookingHistory"), room_id |-> row.room_id,
                       date |-> row.date, time_slot |-> row.time_slot,
                       occupied |-> row.occupied]},
                 !.sqlite_sequence["BookingHistory"] = @ + 1])

\* INSERT INTO BookingHistory without OR IGNORE: a repeated key of the unique
\* index raises.
InsertBooking(d, row) ==
    IF "BookingHistory" \notin d.tables THEN NoSuchTable(d, "BookingHistory")
    ELSE IF \E r \in d.BookingHistory : RowKey(r) = RowKey(row)
    THEN Raise(d, "UNIQUE constraint failed")
    ELSE Done([d EXCEPT
                 !.BookingHistory = @ \cup
                     {[id |-> NextId(d, "BookingHistory"), room_id |-> row.room_id,
                       date |-> row.date, time_slot |-> row.time_slot,
                       occupied |-> row.occupied]},
                 !.sqlite_sequence["BookingHistory"] = @ + 1])

\* INSERT OR IGNORE with the unique index on (room_id, date) alone.
InsertOrIgnoreBookingByRoomAndDate(d, row) ==
    IF "BookingHistory" \notin d.tables THEN NoSuchTable(d, "BookingHistory")
    ELSE IF \E r \in d.BookingHistory : r.room_id = row.room_id /\ r.date = row.date
    THEN Done([d EXCEPT !.sqlite_sequence["BookingHistory"] = @ + 1])
    ELSE Done([d EXCEPT
                 !.BookingHistory = @ \cup
                     {[id |-> NextId(d, "BookingHistory"), room_id |-> row.room_id,
                       date |-> row.date, time_slot |-> row.time_slot,
                       occupied |-> row.occupied]},
                 !.sqlite_sequence["BookingHistory"] = @ + 1])

\* INSERT OR REPLACE INTO BookingHistory: the row that holds the key is
\* deleted and the new one stored under a new id.
InsertOrReplaceBooking(d, row) ==
    IF "BookingHistory" \notin d.tables THEN NoSuchTable(d, "BookingHistory")
    ELSE IF row.occupied \notin {0, 1} THEN Raise(d, "CHECK constraint failed")
    ELSE IF ~\E r \in d.Rooms : r.id = row.room_id
    THEN Raise(d, "FOREIGN KEY constraint failed")
    ELSE Done([d EXCEPT
                 !.BookingHistory =
                     {r \in @ : \/ "idx_booking_unique_room_date_slot" \notin d.indexes
                                \/ RowKey(r) # RowKey(row)}
                     \cup {[id |-> NextId(d, "BookingHistory"), room_id |-> row.room_id,
                            date |-> row.date, time_slot |-> row.time_slot,
                            occupied |-> row.occupied]},
                 !.sqlite_sequence["BookingHistory"] = @ + 1])

\* INSERT OR IGNORE INTO BookingHistory (room_id, date, time_slot, occupied).
\* A row that fails CHECK (occupied IN (0,1)) or repeats a key of the unique
\* index is skipped; the skipped row has used up its AUTOINCREMENT id. The
\* foreign key is not a conflict OR IGNORE covers: it raises.
InsertOrIgnoreBooking(d, row) ==
    IF "BookingHistory" \notin d.tables THEN NoSuchTable(d, "BookingHistory")
    ELSE IF row.occupied \notin {0, 1} THEN Done(d)
    ELSE IF /\ "idx_booking_unique_room_date_slot" \in d.indexes
            /\ \E r \in d.BookingHistory : RowKey(r) = RowKey(row)
    THEN Done([d EXCEPT !.sqlite_sequence["BookingHistory"] = @ + 1])
    ELSE IF ~\E r \in d.Rooms : r.id = row.room_id
    THEN Raise(d, "FOREIGN KEY constraint failed")
    ELSE Done([d EXCEPT
                 !.BookingHistory = @ \cup
                     {[id |-> NextId(d, "BookingHistory"), room_id |-> row.room_id,
                       date |-> row.date, time_slot |-> row.time_slot,
                       occupied |-> row.occupied]},
                 !.sqlite_sequence["BookingHistory"] = @ + 1])

\* INSERT INTO Requests (...): status takes its default 'PENDING'.
InsertRequest(d, a) ==
    IF "Requests" \notin d.tables THEN NoSuchTable(d, "Requests")
    ELSE IF "stakeholder_id" \notin d.request_columns
    THEN Raise(d, "table Requests has no column named stakeholder_id")
    ELSE IF a.requested_date = NullText \/ a.requested_time_slot = NullText
    THEN Raise(d, "NOT NULL constraint failed")
    ELSE IF a.requested_capacity <= 0 THEN Raise(d, "CHECK constraint failed")
    ELSE Done([d EXCEPT
                 !.Requests = @ \cup
                     {[id |-> NextId(d, "Requests"),
                       requested_capacity |-> a.requested_capacity,
                       requested_date |-> a.requested_date,
                       requested_time_slot |-> a.requested_time_slot,
                       stakeholder_id |-> a.stakeholder_id,
                       priority_weight |-> a.priority_weight,
                       status |-> "PENDING"]},
                 !.sqlite_sequence["Requests"] = @ + 1])

\* UPDATE Requests SET status = the other status WHERE id IN (...)
UpdateRequestsToggled(d, request_ids) ==
    IF "Requests" \notin d.tables THEN NoSuchTable(d, "Requests")
    ELSE Done([d EXCEPT
                 !.Requests = {IF \E i \in 1..Len(request_ids) : request_ids[i] = r.id
                               THEN [r EXCEPT !.status = IF @ = "PENDING"
                                                         THEN "ALLOCATED" ELSE "PENDING"]
                               ELSE r : r \in @}])

\* The UPDATE refusing an id that is ALLOCATED already.
UpdateRequestsAllocatedOnce(d, request_ids) ==
    IF "Requests" \notin d.tables THEN NoSuchTable(d, "Requests")
    ELSE IF \E r \in d.Requests :
               /\ r.status = "ALLOCATED"
               /\ \E i \in 1..Len(request_ids) : request_ids[i] = r.id
    THEN Raise(d, "request is already allocated")
    ELSE Done([d EXCEPT
                 !.Requests = {IF \E i \in 1..Len(request_ids) : request_ids[i] = r.id
                               THEN [r EXCEPT !.status = "ALLOCATED"]
                               ELSE r : r \in @}])

\* UPDATE Requests SET status = 'ALLOCATED' WHERE id IN (...)
UpdateRequestsAllocated(d, request_ids) ==
    IF "Requests" \notin d.tables THEN NoSuchTable(d, "Requests")
    ELSE Done([d EXCEPT
                 !.Requests = {IF \E i \in 1..Len(request_ids) : request_ids[i] = r.id
                               THEN [r EXCEPT !.status = "ALLOCATED"]
                               ELSE r : r \in @}])

\* INSERT OR REPLACE with (room_id, date, time_slot) as the key: the new
\* prediction takes the place of the old one.
InsertOrReplacePrediction(d, row) ==
    IF "Predictions" \notin d.tables THEN NoSuchTable(d, "Predictions")
    ELSE IF row.idle_probability = Nothing THEN Raise(d, "NOT NULL constraint failed")
    ELSE IF ~\E r \in d.Rooms : r.id = row.room_id
    THEN Raise(d, "FOREIGN KEY constraint failed")
    ELSE Done([d EXCEPT
                 !.Predictions =
                     {r \in @ : ~(/\ r.room_id = row.room_id /\ r.date = row.date
                                  /\ r.time_slot = row.time_slot)}
                     \cup {[id |-> NextId(d, "Predictions"), room_id |-> row.room_id,
                            date |-> row.date, time_slot |-> row.time_slot,
                            idle_probability |-> row.idle_probability]},
                 !.sqlite_sequence["Predictions"] = @ + 1])

\* INSERT INTO Predictions (room_id, date, time_slot, idle_probability)
InsertPrediction(d, row) ==
    IF "Predictions" \notin d.tables THEN NoSuchTable(d, "Predictions")
    ELSE IF row.date = NullText \/ row.time_slot = NullText
            \/ row.idle_probability = Nothing
    THEN Raise(d, "NOT NULL constraint failed")
    ELSE IF ~\E r \in d.Rooms : r.id = row.room_id
    THEN Raise(d, "FOREIGN KEY constraint failed")
    ELSE Done([d EXCEPT
                 !.Predictions = @ \cup
                     {[id |-> NextId(d, "Predictions"), room_id |-> row.room_id,
                       date |-> row.date, time_slot |-> row.time_slot,
                       idle_probability |-> row.idle_probability]},
                 !.sqlite_sequence["Predictions"] = @ + 1])

\* The INSERT on a connection that never ran PRAGMA foreign_keys = ON.
InsertAllocationLogUnchecked(d, row) ==
    IF "AllocationLogs" \notin d.tables THEN NoSuchTable(d, "AllocationLogs")
    ELSE Done([d EXCEPT
                 !.AllocationLogs = @ \cup
                     {[id |-> NextId(d, "AllocationLogs"), request_id |-> row.request_id,
                       room_id |-> row.room_id,
                       allocation_score |-> row.allocation_score]},
                 !.sqlite_sequence["AllocationLogs"] = @ + 1])

\* INSERT INTO AllocationLogs (request_id, room_id, allocation_score)
InsertAllocationLog(d, row) ==
    IF "AllocationLogs" \notin d.tables THEN NoSuchTable(d, "AllocationLogs")
    ELSE IF \/ ~\E r \in d.Requests : r.id = row.request_id
            \/ ~\E r \in d.Rooms : r.id = row.room_id
    THEN Raise(d, "FOREIGN KEY constraint failed")
    ELSE Done([d EXCEPT
                 !.AllocationLogs = @ \cup
                     {[id |-> NextId(d, "AllocationLogs"), request_id |-> row.request_id,
                       room_id |-> row.room_id,
                       allocation_score |-> row.allocation_score]},
                 !.sqlite_sequence["AllocationLogs"] = @ + 1])

\* INSERT INTO DemandForecastLogs (forecast_date, time_slot, historical_count,
\* demand_intensity_score)
InsertForecastLog(d, row) ==
    IF "DemandForecastLogs" \notin d.tables THEN NoSuchTable(d, "DemandForecastLogs")
    ELSE IF row.forecast_date = NullText \/ row.time_slot = NullText
            \/ row.demand_intensity_score = Nothing
    THEN Raise(d, "NOT NULL constraint failed")
    ELSE Done([d EXCEPT
                 !.DemandForecastLogs = @ \cup
                     {[id |-> NextId(d, "DemandForecastLogs"),
                       forecast_date |-> row.forecast_date,
                       time_slot |-> row.time_slot,
                       historical_count |-> row.historical_count,
                       demand_intensity_score |-> row.demand_intensity_score]},
                 !.sqlite_sequence["DemandForecastLogs"] = @ + 1])

\* One execution of a prepared statement.
Execute(statement, d, row) ==
    CASE statement = "insert_or_ignore_room" -> InsertOrIgnoreRoom(d, row)
      [] statement = "insert_or_ignore_booking" -> InsertOrIgnoreBooking(d, row)
      [] statement = "insert_prediction" -> InsertPrediction(d, row)
      [] statement = "insert_allocation_log" -> InsertAllocationLog(d, row)
      [] statement = "insert_forecast_log" -> InsertForecastLog(d, row)

RECURSIVE ExecuteMany(_, _, _)
\* cursor.executemany: the statement once per row, in order, inside the
\* connection's open transaction; the first error ends it, with the earlier
\* rows' effects still in the transaction.
ExecuteMany(statement, d, rows) ==
    IF rows = <<>> THEN Done(d)
    ELSE LET first == Execute(statement, d, Head(rows))
         IN  IF first.error # None THEN first
             ELSE ExecuteMany(statement, first.db, Tail(rows))

\* A connection in autocommit mode: every statement that ran stays.
Autocommit(before, result) == result

\* with self._connect() as conn: ... conn.commit(). The block's writes are
\* committed together when it ends normally and rolled back when it raises,
\* so the store after a failed block is the one before it.
WithConnection(before, result) ==
    IF result.error = None THEN result ELSE [result EXCEPT !.db = before]

\* A seeding that does not touch Rooms.
SkipRoomCatalog(d) == Done(d)

\* _seed_room_catalog: the catalog is inserted, the ids 1..10 are read back,
\* and a missing one raises RuntimeError.
SeedRoomCatalog(d) ==
    LET inserted == ExecuteMany("insert_or_ignore_room", d, ROOM_CATALOG)
        persisted_room_ids == {r.id : r \in {q \in inserted.db.Rooms : q.id \in 1..10}}
        missing_room_ids == CatalogRoomIds \ persisted_room_ids
    IN  IF inserted.error # None THEN inserted
        ELSE IF missing_room_ids # {}
        THEN Raise(inserted.db, "Rooms catalog is missing required room ids")
        ELSE inserted

\* The body of the with-block of seed_synthetic_data: the catalog, the count
\* before, the bulk INSERT OR IGNORE, the count after.
SeedStatements(d, booking_rows) ==
    LET catalog == SeedRoomCatalog(d)
        bulk == ExecuteMany("insert_or_ignore_booking", catalog.db, booking_rows)
    IN  IF catalog.error # None THEN catalog
        ELSE IF "BookingHistory" \notin catalog.db.tables
        THEN NoSuchTable(catalog.db, "BookingHistory")
        ELSE bulk

\* DELETE ... WHERE id NOT IN (SELECT MAX(id) ... GROUP BY room_id, date,
\* time_slot)
KeepLatestBookings(rows) ==
    {r \in rows : \A q \in rows : RowKey(q) = RowKey(r) => r.id >= q.id}

\* DELETE FROM BookingHistory with no WHERE clause.
DeleteAllBookings(rows) == {}

\* DELETE FROM BookingHistory WHERE id NOT IN (SELECT MIN(id) ... GROUP BY
\* room_id, date, time_slot)
DeleteDuplicateBookings(rows) ==
    {r \in rows : \A q \in rows : RowKey(q) = RowKey(r) => r.id <= q.id}

\* ALTER TABLE Requests ADD COLUMN stakeholder_id TEXT NOT NULL DEFAULT
\* 'UNKNOWN': the rows stored without the column read as 'UNKNOWN'.
AddStakeholderId(rows) ==
    {IF "stakeholder_id" \in DOMAIN r THEN r
     ELSE [c \in DOMAIN r \cup {"stakeholder_id"} |->
              IF c = "stakeholder_id" THEN "UNKNOWN" ELSE r[c]] : r \in rows}

\* initialize_database: CREATE TABLE / INDEX IF NOT EXISTS for every table
\* and index, with the duplicate bookings deleted before the unique index is
\* created, and the stakeholder_id column added to a Requests table that
\* was created without it.
InitializeStatements(d) ==
    Done([d EXCEPT !.tables = TableNames,
                   !.BookingHistory = DeleteDuplicateBookings(@),
                   !.indexes = IndexNames,
                   !.request_columns = IF "Requests" \in d.tables
                                       THEN @ \cup {"stakeholder_id"}
                                       ELSE RequestColumns,
                   !.Requests = IF "stakeholder_id" \in d.request_columns THEN @
                                ELSE AddStakeholderId(@)])

-----------------------------------------------------------------------------
(* The read queries, as functions of the store.                            *)

Value(v) == [ok |-> TRUE, value |-> v]
Failure(e) == [ok |-> FALSE, error |-> e]

RECURSIVE SumOccupied(_)
SumOccupied(rows) ==
    IF rows = {} THEN 0
    ELSE LET r == CHOOSE q \in rows : TRUE
         IN  r.occupied + SumOccupied(rows \ {r})

\* AVG(occupied) over a set of rows: NULL when there is none.
AvgOccupied(rows) ==
    IF rows = {} THEN Nothing ELSE Some(Rat(SumOccupied(rows), Cardinality(rows)))

\* get_rolling_occupancy_average: the WHERE clause compares the date column
\* with the bound texts as text.
GetRollingOccupancyAverage(d, room_id, time_slot, target_date, window_days) ==
    IF "BookingHistory" \notin d.tables THEN Failure("no such table")
    ELSE LET lower == SqliteDateMinusDays(target_date, window_days)
             matching == {r \in d.BookingHistory :
                            /\ r.room_id = room_id
                            /\ r.time_slot = time_slot
                            /\ TextLess(r.date, target_date)
                            /\ lower # Nothing
                            /\ TextLessEq(lower.some, r.date)}
         IN  Value(AvgOccupied(matching))

\* get_historical_occupancy_frequency
GetHistoricalOccupancyFrequency(d, room_id, time_slot) ==
    IF "BookingHistory" \notin d.tables THEN Failure("no such table")
    ELSE Value(AvgOccupied({r \in d.BookingHistory :
                              r.room_id = room_id /\ r.time_slot = time_slot}))

\* get_global_occupancy_frequency
GetGlobalOccupancyFrequency(d, s) ==
    IF "BookingHistory" \notin d.tables THEN Failure("no such table")
    ELSE IF AvgOccupied(d.BookingHistory) = Nothing
    THEN Value(Some(s.prediction_default_occupancy_probability))
    ELSE Value(AvgOccupied(d.BookingHistory))

\* get_request_status
GetRequestStatus(d, request_id) ==
    IF "Requests" \notin d.tables THEN Failure("no such table")
    ELSE IF \E r \in d.Requests : r.id = request_id
    THEN Value((CHOOSE r \in d.Requests : r.id = request_id).status)
    ELSE Value(None)

RECURSIVE OrderByRoomId(_)
\* ORDER BY p.room_id ASC
OrderByRoomId(rows) ==
    IF rows = {} THEN <<>>
    ELSE LET first == CHOOSE r \in rows :
                        \A q \in rows : r.room_id < q.room_id
                                        \/ (r.room_id = q.room_id /\ r.id <= q.id)
         IN  <<first>> \o OrderByRoomId(rows \ {first})

\* The subquery with MIN(id) in place of MAX(id).
EarliestPredictionIds(predictions, requested_date, requested_time_slot) ==
    LET matching == {p \in predictions :
                       p.date = requested_date /\ p.time_slot = requested_time_slot}
    IN  {p.id : p \in {q \in matching :
                         \A o \in matching : o.room_id = q.room_id => q.id <= o.id}}

\* SELECT MAX(id) AS max_id ... WHERE date = ? AND time_slot = ?
\* GROUP BY room_id, date, time_slot
LatestPredictionIds(predictions, requested_date, requested_time_slot) ==
    LET matching == {p \in predictions :
                       p.date = requested_date /\ p.time_slot = requested_time_slot}
    IN  {p.id : p \in {q \in matching :
                         \A o \in matching : o.room_id = q.room_id => o.id <= q.id}}

\* list_idle_predictions: Predictions joined to the latest ids on id.
ListIdlePredictions(d, requested_date, requested_time_slot) ==
    IF "Predictions" \notin d.tables THEN Failure("no such table")
    ELSE LET latest == LatestPredictionIds(d.Predictions, requested_date,
                                           requested_time_slot)
             joined == OrderByRoomId({p \in d.Predictions : p.id \in latest})
         IN  Value([i \in 1..Len(joined) |->
                      [room_id |-> joined[i].room_id, date |-> joined[i].date,
                       time_slot |-> joined[i].time_slot,
                       idle_probability |-> joined[i].idle_probability]])

\* count_predictions, count_allocation_logs, count_forecast_logs
CountPredictions(d) == Cardinality(d.Predictions)
CountAllocationLogs(d) == Cardinality(d.AllocationLogs)
CountForecastLogs(d) == Cardinality(d.DemandForecastLogs)

-----------------------------------------------------------------------------
(* Bounds and input domains.                                               *)

\* Bounds of the model.
MaxFileWrites == 2
MaxSeedRuns == 2
MaxStoreRows == 4

SlotA == <<"0", "9", "-", "1", "1">>
SlotB == <<"1", "1", "-", "1", "3">>
ReferenceEndDate == <<"2", "0", "2", "6", "-", "0", "2", "-", "2", "1">>

\* Settings as get_settings() builds them, with the seeding knobs given.
SettingsWith(days, slots, weekday, weekend) ==
    [synthetic_seed_days |-> days,
     synthetic_time_slots |-> slots,
     synthetic_weekday_occupied_probability |-> weekday,
     synthetic_weekend_occupied_probability |-> weekend,
     synthetic_random_seed |-> 42,
     synthetic_reference_end_date |-> ReferenceEndDate,
     prediction_default_occupancy_probability |-> Rat(1, 2)]

\* The smallest accepted configuration: one day, one slot.
SmallSettings == SettingsWith(1, <<SlotA>>, Rat(65, 100), Rat(35, 100))

\* The configurations a repository is constructed with: accepted ones (one
\* or two days, one or two slots), and one for each way
\* _validate_synthetic_configuration rejects, and one that repeats a slot.
SettingsChoices ==
    {SmallSettings,
     SettingsWith(2, <<SlotA>>, Rat(65, 100), Rat(35, 100)),
     SettingsWith(1, <<SlotA, SlotB>>, Rat(75, 100), Rat(30, 100)),
     SettingsWith(0, <<SlotA>>, Rat(65, 100), Rat(35, 100)),
     SettingsWith(1, <<>>, Rat(65, 100), Rat(35, 100)),
     SettingsWith(1, <<SlotA, SlotA>>, Rat(65, 100), Rat(35, 100)),
     SettingsWith(1, <<SlotA>>, Rat(80, 100), Rat(35, 100)),
     SettingsWith(1, <<SlotA>>, Rat(65, 100), Rat(25, 100))}

\* Two further date texts: a day without its leading zero, which
\* datetime.strptime accepts, and a day ten days before the seeded ones.
UnpaddedDate == <<"2", "0", "2", "6", "-", "0", "2", "-", "1">>
NotADate == <<"2", "0", "2", "6", "-", "1", "3", "-", "4", "5">>
NotAnInteger == <<"a", "b", "c">>
ShiftedDate == <<"2", "0", "2", "6", "-", "0", "2", "-", "1", "0">>

\* The arguments the callers of the write methods pass.
DateA == <<"2", "0", "2", "6", "-", "0", "2", "-", "2", "2">>
DateB == <<"2", "0", "2", "6", "-", "0", "2", "-", "2", "3">>

RequestArguments ==
    {[requested_capacity |-> c, requested_date |-> DateA,
      requested_time_slot |-> SlotA, priority_weight |-> Rat(1, 1),
      stakeholder_id |-> "s1"] : c \in {0, 5}}

RequestIdLists == {<<>>, <<1>>, <<2>>, <<1, 2>>}

Prediction(room_id, date, idle_probability) ==
    [room_id |-> room_id, date |-> date, time_slot |-> SlotA,
     idle_probability |-> idle_probability]

\* One prediction that can be stored, one for a room that does not exist,
\* one without its probability.
FewPredictionArguments ==
    {Prediction(1, DateA, Some(Rat(20, 100))),
     Prediction(11, DateA, Some(Rat(20, 100))),
     Prediction(1, DateA, Nothing)}

\* And predictions that differ in room, in date and in probability, the
\* floats 1.5 and -0.1 among the probabilities.
PredictionArguments ==
    FewPredictionArguments
    \cup {Prediction(1, DateA, Some(Rat(80, 100))),
          Prediction(2, DateA, Some(Rat(20, 100))),
          Prediction(1, DateB, Some(Rat(80, 100))),
          Prediction(1, DateA, Some(Rat(150, 100))),
          Prediction(2, DateB, Some(Rat(0 - 10, 100)))}

\* Allocations (request_id, room_id, allocation_score): one of request 1 to
\* room 1, one of a request and a room that do not exist.
Allocation == <<1, 1, Rat(1, 2)>>
BadAllocation == <<2, 11, Rat(1, 2)>>

AllocationBatches ==
    {<<>>, <<Allocation>>, <<BadAllocation>>, <<Allocation, Allocation>>,
     <<Allocation, BadAllocation>>, <<BadAllocation, Allocation>>}

\* Forecasts: one complete, one without its time slot.
Forecast ==
    [time_slot |-> SlotA, historical_count |-> 1,
     demand_intensity_score |-> Some(Rat(1, 2))]
BadForecast == [Forecast EXCEPT !.time_slot = NullText]

ForecastBatches ==
    {<<>>, <<Forecast>>, <<BadForecast>>, <<Forecast, Forecast>>,
     <<Forecast, BadForecast>>}

\* The target dates and windows the rolling average is asked for.
TargetDates == {ShiftedDate, DateA}
WindowDays == {1, 7}

-----------------------------------------------------------------------------
(* What other programs do to the CSV between calls.                        *)

FlipOccupied(l) == [l EXCEPT !.occupied = IF @ = Str(1) THEN Str(0) ELSE Str(1)]
Redate(lines, t) ==
    [i \in 1..Len(lines) |->
        IF lines[i].date = lines[1].date THEN [lines[i] EXCEPT !.date = t] ELSE lines[i]]

\* The line sequences an editor may leave at the CSV's path, each an edit of
\* the dataset the generator writes for these settings.
EditedLines(s) ==
    LET base == GenerateSyntheticDatasetCsv(s).lines
        n == Len(base)
    IN  IF n = 0 THEN {base}
        ELSE {base,
              [base EXCEPT ![1].room_id = Str(11)],
              [base EXCEPT ![n].room_id = Str(11)],
              <<BlankLine>> \o [base EXCEPT ![n].room_id = Str(11)],
              <<BlankLine>> \o base,
              SubSeq(base, 1, n - 1),
              [base EXCEPT ![n] = base[1]],
              [base EXCEPT ![1].occupied = NullText],
              [i \in 1..n |-> FlipOccupied(base[i])],
              Redate(base, UnpaddedDate),
              Redate(base, ShiftedDate),
              Append(base, [base[1] EXCEPT !.date = ShiftedDate]),
              [base EXCEPT ![1].date = NotADate, ![1].occupied = NotAnInteger],
              [base EXCEPT ![n].room_id = Str(11), ![n].date = NotADate]}

EditedFiles(s) ==
    {[header |-> SYNTHETIC_COLUMNS, lines |-> l] : l \in EditedLines(s)}
    \cup {[header |-> <<"room", "date", "time_slot", "occupied">>,
           lines |-> GenerateSyntheticDatasetCsv(s).lines]}

\* EditedFiles, computed once for each configuration.
EditedFilesOf == [s \in SettingsChoices |-> EditedFiles(s)]

\* A store as a release without the unique index and without
\* Requests.stakeholder_id left it (the store the DELETE and the ALTER TABLE
\* of initialize_database are written for): three tables, no index, one
\* request, and the booking rows in the order they were inserted.
LegacyStore(booking_rows) ==
    LET created == [EmptyStore EXCEPT
                      !.tables = {"Rooms", "BookingHistory", "Requests"},
                      !.request_columns = RequestColumns \ {"stakeholder_id"},
                      !.Requests = {[id |-> 1, requested_capacity |-> 5,
                                     requested_date |-> DateA,
                                     requested_time_slot |-> SlotA,
                                     priority_weight |-> Rat(1, 1),
                                     status |-> "PENDING"]},
                      !.sqlite_sequence["Requests"] = 1]
    IN  SeedStatements(created, booking_rows).db

\* The booking rows of a legacy store: the dataset once; twice; followed by
\* itself with every occupied value flipped; followed by two more copies of
\* its first row and one of its second.
LegacyBookingRows(s) ==
    LET lines == GenerateSyntheticDatasetCsv(s).lines
        base == [i \in 1..Len(lines) |-> ParsedRow(lines[i])]
        flipped == [i \in 1..Len(base) |-> [base[i] EXCEPT !.occupied = 1 - @]]
    IN  {base, base \o base, base \o flipped, base \o <<base[1], base[1], base[2]>>}

LegacyStores == {LegacyStore(rows) : rows \in LegacyBookingRows(SmallSettings)}

-----------------------------------------------------------------------------
(* The calls, as functions from the state before to the state after.       *)

\* The processes that call seed_synthetic_data() on the same paths.
Workers == {1, 2}

\* A process outside seed_synthetic_data(). Inside, pc is the statement it
\* is about to run, generated tells whether it found no CSV, rows is
\* booking_rows, tx the store as its open transaction sees it, ret the
\* outcome once it has returned; ready and began record what it found when
\* it was called: the store initialized and the CSV present, and the
\* AUTOINCREMENT counter of BookingHistory.
IdleWorker ==
    [pc |-> "idle", generated |-> FALSE, rows |-> <<>>, tx |-> EmptyStore,
     ret |-> [status |-> "none"], ready |-> FALSE, began |-> 0]

\* The processes that hold SQLite's write lock: those between the first
\* INSERT of their transaction and its commit.
Writers(ws) == {w \in Workers : ws[w].pc \in {"bulk", "commit"}}

Ok(changed) == [status |-> "ok", changed |-> changed]
Error(e) == [status |-> "error", error |-> e, changed |-> FALSE]

\* What seed_synthetic_data() reports once the configuration is accepted:
\* the validator's error, the transaction's error, or the logged counts.
SeedOutcome(loaded, tx, before, generated) ==
    IF ~loaded.ok
    THEN IF "line" \in DOMAIN loaded
         THEN [status |-> "error", error |-> loaded.kind, line |-> loaded.line,
               generated |-> generated, changed |-> FALSE]
         ELSE [status |-> "error", error |-> loaded.kind,
               generated |-> generated, changed |-> FALSE]
    ELSE IF tx.error # None
    THEN [status |-> "error", error |-> tx.error,
          generated |-> generated, changed |-> tx.db # before]
    ELSE LET before_count == Cardinality(before.BookingHistory)
             after_count == Cardinality(tx.db.BookingHistory)
             inserted_count == after_count - before_count
         IN  [status |-> "ok", candidates |-> Len(loaded.rows),
              inserted |-> inserted_count,
              duplicates |-> Max(Len(loaded.rows) - inserted_count, 0),
              generated |-> generated, changed |-> tx.db # before]

\* seed_synthetic_data(): the file, the clock, the store and the outcome
\* after the call.
SeedSyntheticDataCall(s, f, now, d) ==
    LET config_error == ValidateSyntheticConfiguration(s)
        ensured == EnsureSyntheticDatasetExists(s, f, now)
        loaded == LoadSyntheticRowsFromCsv(s, ensured)
        tx == IF loaded.ok THEN WithConnection(d, SeedStatements(d, loaded.rows))
              ELSE Done(d)
    IN  IF config_error # None
        THEN [file |-> f, clock |-> now, db |-> d,
              ret |-> [status |-> "error", error |-> "configuration",
                       message |-> config_error,
                       generated |-> FALSE, changed |-> FALSE]]
        ELSE [file |-> ensured,
              clock |-> IF f.exists THEN now ELSE now + 1,
              db |-> tx.db,
              ret |-> SeedOutcome(loaded, tx, d, ~f.exists)]

\* The store and the outcome after a with-block: what it returned, or the
\* error it raised.
Outcome(d, tx) ==
    [db |-> tx.db,
     ret |-> IF tx.error = None THEN Ok(tx.db # d) ELSE Error(tx.error)]

\* initialize_database()
InitializeDatabaseCall(d) == Outcome(d, WithConnection(d, InitializeStatements(d)))

\* create_request(...): returns cursor.lastrowid.
CreateRequestCall(d, a) ==
    LET tx == WithConnection(d, InsertRequest(d, a))
    IN  [db |-> tx.db,
         ret |-> IF tx.error = None
                 THEN [status |-> "ok", changed |-> TRUE,
                       value |-> NextId(d, "Requests")]
                 ELSE Error(tx.error)]

\* mark_requests_allocated(request_ids)
MarkRequestsAllocatedCall(d, request_ids) ==
    IF request_ids = <<>> THEN [db |-> d, ret |-> Ok(FALSE)]
    ELSE Outcome(d, WithConnection(d, UpdateRequestsAllocated(d, request_ids)))

\* save_prediction(room_id, date, time_slot, idle_probability)
SavePredictionCall(d, row) == Outcome(d, WithConnection(d, InsertPrediction(d, row)))

\* save_allocation_logs(allocations)
SaveAllocationLogsCall(d, allocations) ==
    LET allocation_rows ==
            [i \in 1..Len(allocations) |->
                [request_id |-> allocations[i][1], room_id |-> allocations[i][2],
                 allocation_score |-> allocations[i][3]]]
    IN  IF allocation_rows = <<>> THEN [db |-> d, ret |-> Ok(FALSE)]
        ELSE Outcome(d, WithConnection(d,
                 ExecuteMany("insert_allocation_log", d, allocation_rows)))

\* save_forecast_output(forecast_date, forecasts)
SaveForecastOutputCall(d, forecast_date, forecasts) ==
    LET rows == [i \in 1..Len(forecasts) |->
                    [forecast_date |-> forecast_date,
                     time_slot |-> forecasts[i].time_slot,
                     historical_count |-> forecasts[i].historical_count,
                     demand_intensity_score |-> forecasts[i].demand_intensity_score]]
    IN  IF forecasts = <<>> THEN [db |-> d, ret |-> Ok(FALSE)]
        ELSE Outcome(d, WithConnection(d, ExecuteMany("insert_forecast_log", d, rows)))

-----------------------------------------------------------------------------
(* The state machine.                                                      *)

Init ==
    /\ settings \in SettingsChoices
    /\ file = NoFile
    /\ clock = 0
    /\ db = EmptyStore
    /\ call = [op |-> "__init__", args |-> <<>>]
    /\ ret = Ok(FALSE)
    /\ seeded = 0
    /\ workers = [w \in Workers |-> IdleWorker]

\* Another program writes the CSV.
ExternalWrite(content) ==
    /\ clock < MaxFileWrites
    /\ file' = [exists |-> TRUE, header |-> content.header,
                lines |-> content.lines, mtime |-> clock + 1]
    /\ clock' = clock + 1
    /\ call' = [op |-> "external_write", args |-> <<>>]
    /\ ret' = Ok(FALSE)
    /\ UNCHANGED <<settings, db, seeded, workers>>

\* Another program deletes the CSV.
ExternalDelete ==
    /\ clock < MaxFileWrites
    /\ file.exists
    /\ file' = NoFile
    /\ clock' = clock + 1
    /\ call' = [op |-> "external_delete", args |-> <<>>]
    /\ ret' = Ok(FALSE)
    /\ UNCHANGED <<settings, db, seeded, workers>>

\* initialize_database(), when it does not wait: with the write lock free
\* it runs; with the lock held by a process that is seeding, its DELETE
\* gives up after the busy timeout and nothing of it is kept.
InitializeDatabase ==
    \E r \in {IF Writers(workers) = {} THEN InitializeDatabaseCall(db)
               ELSE [db |-> db, ret |-> Error("database is locked")]} :
        /\ db' = r.db
        /\ call' = [op |-> "initialize_database", args |-> <<>>]
        /\ ret' = r.ret
        /\ UNCHANGED <<settings, file, clock, seeded, workers>>

\* The AUTOINCREMENT counter of BookingHistory grows by the file's row count
\* with every seeding that reaches the bulk insert, so the calls stop once
\* it shows MaxSeedRuns of them.
SeedSyntheticData ==
    /\ db.sqlite_sequence["BookingHistory"]
           < MaxSeedRuns * Max(ExpectedSyntheticRowCount(settings), 1)
    /\ \E r \in {SeedSyntheticDataCall(settings, file, clock, db)} :
        /\ file' = r.file
        /\ clock' = r.clock
        /\ db' = r.db
        /\ call' = [op |-> "seed_synthetic_data", args |-> <<>>]
        /\ ret' = r.ret
        /\ seeded' = IF r.ret.status = "ok" THEN r.file.mtime ELSE seeded
        /\ UNCHANGED <<settings, workers>>

\* Process w leaves seed_synthetic_data() with the outcome r.
SeedReturns(w, r) ==
    workers' = [workers EXCEPT ![w] = [@ EXCEPT !.pc = "returned", !.ret = r,
                                                !.rows = <<>>, !.tx = EmptyStore]]

\* seed_synthetic_data(), first statements: the configuration is validated
\* and the CSV's existence is tested.
SeedBegin(w) ==
    /\ workers[w].pc = "idle"
    /\ db.sqlite_sequence["BookingHistory"]
           < MaxSeedRuns * Max(ExpectedSyntheticRowCount(settings), 1)
    /\ LET config_error == ValidateSyntheticConfiguration(settings)
           started == [IdleWorker EXCEPT
                         !.ready = db.tables = TableNames /\ file.exists,
                         !.began = db.sqlite_sequence["BookingHistory"]]
       IN  workers' = [workers EXCEPT ![w] =
               IF config_error # None
               THEN [started EXCEPT
                       !.pc = "returned",
                       !.ret = [status |-> "error", error |-> "configuration",
                                message |-> config_error,
                                generated |-> FALSE, changed |-> FALSE]]
               ELSE [started EXCEPT !.pc = IF file.exists THEN "load" ELSE "generate",
                                    !.generated = ~file.exists]]
    /\ UNCHANGED <<settings, file, clock, db, call, ret, seeded>>

\* _generate_synthetic_dataset_csv by a process that found no CSV: the path
\* is opened for writing, whatever is there by now.
SeedGenerate(w) ==
    /\ workers[w].pc = "generate"
    /\ file' = OpenForWriting(file, clock)
    /\ clock' = clock + 1
    /\ workers' = [workers EXCEPT ![w].pc = "write"]
    /\ UNCHANGED <<settings, db, call, ret, seeded>>

\* The rows are written and the handle closed.
SeedWrite(w) ==
    /\ workers[w].pc = "write"
    /\ file' = CloseWritten(settings, clock)
    /\ clock' = clock + 1
    /\ workers' = [workers EXCEPT ![w].pc = "load"]
    /\ UNCHANGED <<settings, db, call, ret, seeded>>

\* _load_synthetic_rows_from_csv on the CSV as it is now.
SeedLoad(w) ==
    /\ workers[w].pc = "load"
    /\ LET loaded == LoadSyntheticRowsFromCsv(settings, file)
       IN  IF loaded.ok
           THEN workers' = [workers EXCEPT ![w].pc = "connect", ![w].rows = loaded.rows]
           ELSE SeedReturns(w, SeedOutcome(loaded, Done(db), db, workers[w].generated))
    /\ UNCHANGED <<settings, file, clock, db, call, ret, seeded>>

\* _connect and _seed_room_catalog: the first INSERT takes the write lock,
\* which no other process may hold. An error rolls the transaction back.
SeedCatalog(w) ==
    /\ workers[w].pc = "connect"
    /\ Writers(workers) = {}
    /\ LET catalog == SeedRoomCatalog(db)
       IN  IF catalog.error = None
           THEN workers' = [workers EXCEPT ![w].pc = "bulk", ![w].tx = catalog.db]
           ELSE SeedReturns(w, SeedOutcome([ok |-> TRUE, rows |-> workers[w].rows],
                                           WithConnection(db, catalog), db,
                                           workers[w].generated))
    /\ UNCHANGED <<settings, file, clock, db, call, ret, seeded>>

\* The first INSERT while another process holds the write lock, when the
\* busy timeout of sqlite3.connect (5 seconds) runs out.
SeedBusy(w) ==
    /\ workers[w].pc = "connect"
    /\ Writers(workers) # {}
    /\ SeedReturns(w, SeedOutcome([ok |-> TRUE, rows |-> workers[w].rows],
                                  Raise(db, "database is locked"), db,
                                  workers[w].generated))
    /\ UNCHANGED <<settings, file, clock, db, call, ret, seeded>>

\* SELECT COUNT(*), the bulk INSERT OR IGNORE, SELECT COUNT(*), inside the
\* transaction.
SeedBulk(w) ==
    /\ workers[w].pc = "bulk"
    /\ LET tx == workers[w].tx
           bulk == IF "BookingHistory" \notin tx.tables
                   THEN NoSuchTable(tx, "BookingHistory")
                   ELSE ExecuteMany("insert_or_ignore_booking", tx, workers[w].rows)
       IN  IF bulk.error = None
           THEN workers' = [workers EXCEPT ![w].pc = "commit", ![w].tx = bulk.db]
           ELSE SeedReturns(w, SeedOutcome([ok |-> TRUE, rows |-> workers[w].rows],
                                           WithConnection(db, bulk), db,
                                           workers[w].generated))
    /\ UNCHANGED <<settings, file, clock, db, call, ret, seeded>>

\* conn.commit(): the transaction becomes the store, the lock is released
\* and the counts are logged.
SeedCommit(w) ==
    /\ workers[w].pc = "commit"
    /\ db' = workers[w].tx
    /\ SeedReturns(w, SeedOutcome([ok |-> TRUE, rows |-> workers[w].rows],
                                  Done(workers[w].tx), db, workers[w].generated))
    /\ UNCHANGED <<settings, file, clock, call, ret, seeded>>

\* The process goes on to other work and may call again.
SeedDone(w) ==
    /\ workers[w].pc = "returned"
    /\ workers' = [workers EXCEPT ![w] = IdleWorker]
    /\ UNCHANGED <<settings, file, clock, db, call, ret, seeded>>

\* The rows of the tables the write methods fill.
StoreRows(d) ==
    Cardinality(d.Requests) + Cardinality(d.Predictions)
        + Cardinality(d.AllocationLogs) + Cardinality(d.DemandForecastLogs)

\* A write method's call: the store and the outcome change, nothing else.
Returns(op, args, r) ==
    /\ db' = r.db
    /\ call' = [op |-> op, args |-> args]
    /\ ret' = r.ret
    /\ UNCHANGED <<settings, file, clock, seeded, workers>>

CreateRequest(a) ==
    /\ StoreRows(db) < MaxStoreRows
    /\ \E r \in {CreateRequestCall(db, a)} :
           Returns("create_request", <<>>, r)

MarkRequestsAllocated(request_ids) ==
    \E r \in {MarkRequestsAllocatedCall(db, request_ids)} :
        Returns("mark_requests_allocated", request_ids, r)

SavePrediction(row) ==
    /\ StoreRows(db) < MaxStoreRows
    /\ \E r \in {SavePredictionCall(db, row)} :
           Returns("save_prediction", <<>>, r)

SaveAllocationLogs(allocations) ==
    /\ StoreRows(db) + Len(allocations) <= MaxStoreRows
    /\ \E r \in {SaveAllocationLogsCall(db, allocations)} :
           Returns("save_allocation_logs",
                   [i \in 1..Len(allocations) |-> allocations[i][1]], r)

SaveForecastOutput(forecast_date, forecasts) ==
    /\ StoreRows(db) + Len(forecasts) <= MaxStoreRows
    /\ \E r \in {SaveForecastOutputCall(db, forecast_date, forecasts)} :
           Returns("save_forecast_output", <<>>, r)

Next ==
    \/ InitializeDatabase
    \/ SeedSyntheticData
    \/ \E content \in EditedFilesOf[settings] : ExternalWrite(content)
    \/ ExternalDelete

Spec == Init /\ [][Next]_vars

\* The repository with the smallest configuration and its callers: the
\* startup calls and the write methods, in any order.
InitStore ==
    /\ Init
    /\ settings = SmallSettings

NextStore ==
    \/ InitializeDatabase
    \/ SeedSyntheticData
    \/ \E a \in RequestArguments : CreateRequest(a)
    \/ \E request_ids \in RequestIdLists : MarkRequestsAllocated(request_ids)
    \/ \E row \in FewPredictionArguments : SavePrediction(row)
    \/ \E allocations \in AllocationBatches : SaveAllocationLogs(allocations)
    \/ \E forecasts \in ForecastBatches : SaveForecastOutput(DateA, forecasts)

SpecStore == InitStore /\ [][NextStore]_vars

\* The repository and the callers that write and list predictions.
\* The program started on a legacy store.
InitLegacy ==
    /\ settings = SmallSettings
    /\ file = NoFile
    /\ clock = 0
    /\ db \in LegacyStores
    /\ call = [op |-> "__init__", args |-> <<>>]
    /\ ret = Ok(FALSE)
    /\ seeded = 0
    /\ workers = [w \in Workers |-> IdleWorker]

NextLegacy ==
    \/ InitializeDatabase
    \/ SeedSyntheticData
    \/ \E a \in RequestArguments : CreateRequest(a)
    \/ \E request_ids \in RequestIdLists : MarkRequestsAllocated(request_ids)
    \/ \E row \in FewPredictionArguments : SavePrediction(row)

SpecLegacy == InitLegacy /\ [][NextLegacy]_vars

\* Two processes started on the same paths (two server workers): each
\* initializes the store and seeds, statement by statement.
ConcurrentSettings ==
    {SmallSettings,
     SettingsWith(1, <<SlotA, SlotB>>, Rat(75, 100), Rat(30, 100)),
     SettingsWith(0, <<SlotA>>, Rat(65, 100), Rat(35, 100))}

InitConcurrent ==
    /\ Init
    /\ settings \in ConcurrentSettings

NextConcurrent ==
    \/ InitializeDatabase
    \/ \E w \in Workers :
          \/ SeedBegin(w)
          \/ SeedGenerate(w)
          \/ SeedWrite(w)
          \/ SeedLoad(w)
          \/ SeedCatalog(w)
          \/ SeedBusy(w)
          \/ SeedBulk(w)
          \/ SeedCommit(w)
          \/ SeedDone(w)

SpecConcurrent == InitConcurrent /\ [][NextConcurrent]_vars

NextPredictions ==
    \/ InitializeDatabase
    \/ SeedSyntheticData
    \/ \E row \in PredictionArguments : SavePrediction(row)

SpecPredictions == InitStore /\ [][NextPredictions]_vars

-----------------------------------------------------------------------------
(* Seeding.                                                                *)

SeedStep == call'.op = "seed_synthetic_data"

\* C1: seeding is idempotent. A seed_synthetic_data() call made when an
\* earlier call has succeeded and the import file is still the one that call
\* read succeeds, reports inserted = 0 and duplicates = the number of
\* candidate rows, and leaves BookingHistory as it was.
C1_SeedingIsIdempotent ==
    [][(SeedStep /\ file.exists /\ seeded = file.mtime)
          => /\ ret'.status = "ok"
             /\ ret'.inserted = 0
             /\ ret'.duplicates = ret'.candidates
             /\ Cardinality(db'.BookingHistory) = Cardinality(db.BookingHistory)
             /\ db'.BookingHistory = db.BookingHistory
             /\ file' = file]_vars

\* The second successful seeding of a generated file nobody touched: the
\* AUTOINCREMENT counter shows two bulk inserts, the table one.
C1_SecondSeedInsertsNothing ==
    /\ call.op = "seed_synthetic_data"
    /\ ret.status = "ok"
    /\ ret.candidates = 20
    /\ ret.inserted = 0
    /\ ret.duplicates = 20
    /\ clock = 1
    /\ seeded = file.mtime
    /\ Cardinality(db.BookingHistory) = 20
    /\ db.sqlite_sequence["BookingHistory"] = 40

\* C2: a successful seed_synthetic_data() on a freshly initialized, empty
\* store with no import file leaves exactly 10 * D * |S| BookingHistory
\* rows, no two with the same (room_id, date, time_slot), and a Rooms table
\* that holds exactly the ten catalog rows, ids 1..10.
C2_FreshSeedRowCount ==
    [][(/\ SeedStep
        /\ ~file.exists
        /\ db.tables = TableNames
        /\ db.BookingHistory = {}
        /\ db.Rooms = {}
        /\ ret'.status = "ok")
          => /\ Cardinality(db'.BookingHistory)
                    = 10 * settings.synthetic_seed_days
                         * Len(settings.synthetic_time_slots)
             /\ \A r, q \in db'.BookingHistory : RowKey(r) = RowKey(q) => r = q
             /\ Cardinality(db'.Rooms) = 10
             /\ {r.id : r \in db'.Rooms} = 1..10
             /\ db'.Rooms = {ROOM_CATALOG[i] : i \in 1..Len(ROOM_CATALOG)}]_vars

\* The first seeding of a store with one seed day and two slots: the file
\* was generated and its twenty rows are the table.
C2_FreshSeedOfTwoSlots ==
    /\ call.op = "seed_synthetic_data"
    /\ ret.status = "ok"
    /\ ret.generated
    /\ Len(settings.synthetic_time_slots) = 2
    /\ ret.inserted = 20
    /\ Cardinality(db.BookingHistory) = 20
    /\ db.sqlite_sequence["BookingHistory"] = 20

\* C3: an import file that exists is never written by seed_synthetic_data():
\* whether the call succeeds or fails, the file's content and modification
\* marker after it are those before it.
C3_ExistingFileIsNeverWritten ==
    [][(SeedStep /\ file.exists) => file' = file]_vars

\* A seeding that rejected a file another program wrote, at one of its
\* rows: the file is still that program's.
C3_RejectedFileIsKept ==
    /\ call.op = "seed_synthetic_data"
    /\ ret.status = "error"
    /\ "line" \in DOMAIN ret
    /\ ~ret.generated
    /\ file.exists
    /\ file.lines # GenerateSyntheticDatasetCsv(settings).lines
    /\ file.mtime = clock

RECURSIVE FirstOffendingLine(_, _, _, _)
\* The number, counting the header as line 1, of the first line of the file
\* whose row fails a check of the validator; 0 when no row does.
FirstOffendingLine(s, lines, i, seen_keys) ==
    IF i > Len(lines) THEN 0
    ELSE IF IsBlankLine(lines[i]) THEN FirstOffendingLine(s, lines, i + 1, seen_keys)
    ELSE IF RowError(s, lines[i], seen_keys) # None THEN i + 1
    ELSE FirstOffendingLine(s, lines, i + 1,
                            seen_keys \cup {RowKey(ParsedRow(lines[i]))})

\* C4: import is fail-closed. When seed_synthetic_data() rejects a row of
\* the import file, the error cites the number of the line that row is on.
C4_ErrorCitesOffendingLine ==
    (/\ call.op = "seed_synthetic_data"
     /\ ret.status = "error"
     /\ "line" \in DOMAIN ret)
        => ret.line = FirstOffendingLine(settings, file.lines, 1, {})

\* C4, the half that holds: a seed_synthetic_data() call the validator
\* fails leaves the store as it was.
C4_RejectedImportInsertsNothing ==
    [][(SeedStep /\ ret'.status = "error"
           /\ ret'.error \notin {"configuration", "no such table"})
          => db' = db]_vars

\* A file whose only bad row is on its last line, after a blank line.
C4_BadRowAfterBlankLine ==
    /\ call.op = "seed_synthetic_data"
    /\ ret.status = "error"
    /\ ret.error = "room_id_out_of_range"
    /\ file.exists
    /\ IsBlankLine(file.lines[1])
    /\ ret.line = Len(file.lines)

-----------------------------------------------------------------------------
(* Requests.                                                               *)

Status(d, request_id) == GetRequestStatus(d, request_id).value

\* C5: a request's status only moves PENDING -> ALLOCATED. After every
\* step each Requests row is PENDING or ALLOCATED, the row create_request
\* made is PENDING, and a row that was ALLOCATED before is ALLOCATED after.
C5_StatusOnlyAdvances ==
    [][/\ \A r \in db'.Requests : r.status \in {"PENDING", "ALLOCATED"}
       /\ (call'.op = "create_request" /\ ret'.status = "ok")
             => /\ ret'.value \notin {r.id : r \in db.Requests}
                /\ Status(db', ret'.value) = "PENDING"
       /\ \A r \in db.Requests :
             r.status = "ALLOCATED" => Status(db', r.id) = "ALLOCATED"
       /\ {r.id : r \in db.Requests} \subseteq {r.id : r \in db'.Requests}]_vars

\* A request that was allocated, then named again in a later
\* mark_requests_allocated call along with a pending one.
C5_AllocatedRequestMarkedAgain ==
    /\ call.op = "mark_requests_allocated"
    /\ call.args = <<1, 2>>
    /\ ret.status = "ok"
    /\ ret.changed
    /\ Cardinality(db.Requests) = 2
    /\ \A r \in db.Requests : r.status = "ALLOCATED"
    /\ StoreRows(db) = 3

\* The ids of a mark_requests_allocated call.
Marked(request_ids) == {request_ids[i] : i \in 1..Len(request_ids)}

\* C6: mark_requests_allocated is idempotent. The id create_request returns
\* reads PENDING; a mark_requests_allocated call on an initialized store
\* raises nothing, leaves the requests it names ALLOCATED and every other
\* request as it was; and when the requests it names are ALLOCATED already
\* the store after the call is the store before it.
C6_MarkIsIdempotent ==
    [][/\ (call'.op = "create_request" /\ ret'.status = "ok")
             => GetRequestStatus(db', ret'.value) = Value("PENDING")
       /\ (call'.op = "mark_requests_allocated" /\ "Requests" \in db.tables)
             => /\ ret'.status = "ok"
                /\ \A r \in db.Requests :
                      GetRequestStatus(db', r.id) =
                          Value(IF r.id \in Marked(call'.args)
                                THEN "ALLOCATED" ELSE r.status)
                /\ (\A r \in db.Requests :
                        r.id \in Marked(call'.args) => r.status = "ALLOCATED")
                      => db' = db]_vars

\* mark_requests_allocated([1]) returning without a change: request 1 was
\* ALLOCATED before the call, and request 2 is still PENDING.
C6_RepeatedMarkChangesNothing ==
    /\ call.op = "mark_requests_allocated"
    /\ call.args = <<1>>
    /\ ret.status = "ok"
    /\ ~ret.changed
    /\ GetRequestStatus(db, 1) = Value("ALLOCATED")
    /\ GetRequestStatus(db, 2) = Value("PENDING")

-----------------------------------------------------------------------------
(* Predictions.                                                            *)

\* The predictions of a room for a date and slot.
PredictionsOf(d, room_id, date, time_slot) ==
    {p \in d.Predictions :
        p.room_id = room_id /\ p.date = date /\ p.time_slot = time_slot}

\* C7: latest-wins read. list_idle_predictions(date, slot) returns one row
\* for each room that has a prediction for that date and slot, none for any
\* other room, and the row's idle_probability is that of the room's
\* prediction with the greatest id for that date and slot.
C7_LatestPredictionWins ==
    "Predictions" \in db.tables =>
        \A date \in {DateA, DateB}, time_slot \in {SlotA, SlotB} :
            LET listed == ListIdlePredictions(db, date, time_slot).value
                rooms == {p.room_id : p \in {q \in db.Predictions :
                                                q.date = date /\ q.time_slot = time_slot}}
            IN  /\ {listed[i].room_id : i \in 1..Len(listed)} = rooms
                /\ Len(listed) = Cardinality(rooms)
                /\ \A i \in 1..Len(listed) :
                      LET of_room == PredictionsOf(db, listed[i].room_id, date, time_slot)
                          latest == CHOOSE p \in of_room : \A q \in of_room : q.id <= p.id
                      IN  /\ listed[i].idle_probability = latest.idle_probability
                          /\ listed[i].date = date
                          /\ listed[i].time_slot = time_slot

\* Room 1 predicted twice for the same date and slot, 0.2 and then 0.8, and
\* room 2 once: the list for that date and slot has 0.8 for room 1.
C7_SecondPredictionReplacesFirst ==
    /\ \E p, q \in PredictionsOf(db, 1, DateA, SlotA) :
          /\ p.id < q.id
          /\ p.idle_probability = Some(Rat(20, 100))
          /\ q.idle_probability = Some(Rat(80, 100))
    /\ PredictionsOf(db, 2, DateA, SlotA) # {}
    /\ Len(ListIdlePredictions(db, DateA, SlotA).value) = 2
    /\ ListIdlePredictions(db, DateA, SlotA).value[1].idle_probability
           = Some(Rat(80, 100))

-----------------------------------------------------------------------------
(* History reads.                                                          *)

\* The day a stored date text names lies in [target - window_days, target).
InWindow(date, target_date, window_days) ==
    LET day == Strptime(date)
        target == Strptime(target_date)
    IN  /\ day # Nothing
        /\ target # Nothing
        /\ ToOrdinal(day.some) < ToOrdinal(target.some)
        /\ ToOrdinal(day.some) >= ToOrdinal(target.some) - window_days

\* C8: absence of history is never an error. On an initialized store
\* get_rolling_occupancy_average returns None when no BookingHistory row of
\* the room and slot has a date before the target date and on or after the
\* target date minus the window, and get_global_occupancy_frequency returns
\* the configured default when BookingHistory is empty.
C8_NoHistoryReadsAsNoData ==
    "BookingHistory" \in db.tables =>
        /\ \A room_id \in CatalogRoomIds, time_slot \in {SlotA, SlotB},
              target_date \in TargetDates, window_days \in WindowDays :
                (~\E r \in db.BookingHistory :
                      /\ r.room_id = room_id
                      /\ r.time_slot = time_slot
                      /\ InWindow(r.date, target_date, window_days))
                  => GetRollingOccupancyAverage(db, room_id, time_slot, target_date,
                                                window_days) = Value(Nothing)
        /\ db.BookingHistory = {}
              => GetGlobalOccupancyFrequency(db, settings)
                    = Value(Some(settings.prediction_default_occupancy_probability))

\* C8, the half that holds: the global frequency of an empty history is the
\* configured default.
C8_EmptyHistoryReadsAsDefault ==
    ("BookingHistory" \in db.tables /\ db.BookingHistory = {})
        => GetGlobalOccupancyFrequency(db, settings)
              = Value(Some(settings.prediction_default_occupancy_probability))

-----------------------------------------------------------------------------
(* The logs.                                                               *)

\* C9: Predictions, AllocationLogs and DemandForecastLogs are append-only.
\* Every row of one of them before a step is a row of it, with the same
\* fields, after the step, and the three counts do not decrease.
C9_LogsAreAppendOnly ==
    [][/\ db.Predictions \subseteq db'.Predictions
       /\ db.AllocationLogs \subseteq db'.AllocationLogs
       /\ db.DemandForecastLogs \subseteq db'.DemandForecastLogs
       /\ CountPredictions(db) <= CountPredictions(db')
       /\ CountAllocationLogs(db) <= CountAllocationLogs(db')
       /\ CountForecastLogs(db) <= CountForecastLogs(db')]_vars

\* Each log holds a row, and initialize_database has run since.
C9_LogsSurviveInitialization ==
    /\ call.op = "initialize_database"
    /\ CountPredictions(db) = 1
    /\ CountAllocationLogs(db) = 1
    /\ CountForecastLogs(db) = 1

\* C10: batches are atomic. When save_allocation_logs, save_forecast_output
\* or seed_synthetic_data raises, the store after the call is the store
\* before it: no row of the batch is kept.
C10_FailedBatchIsRolledBack ==
    [][(/\ call'.op \in {"save_allocation_logs", "save_forecast_output",
                         "seed_synthetic_data"}
        /\ ret'.status = "error")
          => db' = db]_vars

\* save_allocation_logs with a batch whose first row names request 1 and
\* room 1, both present, and whose second row names a request and a room
\* that do not exist: the call raised and no log is stored.
C10_SecondRowOfBatchFails ==
    /\ call.op = "save_allocation_logs"
    /\ call.args = <<1, 2>>
    /\ ret.status = "error"
    /\ ret.error = "FOREIGN KEY constraint failed"
    /\ GetRequestStatus(db, 1) # Value(None)
    /\ \E r \in db.Rooms : r.id = 1
    /\ db.AllocationLogs = {}

-----------------------------------------------------------------------------
(* The schema.                                                             *)

\* C12: initialize_database() is safe to repeat. A call on a store that has
\* every table and every index returns normally and leaves the store, the
\* rows of every table included, as it was.
C12_InitializeIsRepeatable ==
    [][(/\ call'.op = "initialize_database"
        /\ db.tables = TableNames
        /\ db.indexes = IndexNames)
          => /\ ret'.status = "ok"
             /\ ~ret'.changed
             /\ db' = db]_vars

\* initialize_database() called again once history, a request, a
\* prediction and a forecast have been written: nothing changed.
C12_InitializeAfterWrites ==
    /\ call.op = "initialize_database"
    /\ ret.status = "ok"
    /\ ~ret.changed
    /\ db.BookingHistory # {}
    /\ db.Requests # {}
    /\ db.Predictions # {}
    /\ db.DemandForecastLogs # {}

RoomIds(d) == {r.id : r \in d.Rooms}
RequestIds(d) == {r.id : r \in d.Requests}

\* C13: referential integrity. In every reachable state each
\* BookingHistory, Predictions and AllocationLogs row names the id of a
\* Rooms row and each AllocationLogs row names the id of a Requests row.
C13_ReferencesExist ==
    /\ \A r \in db.BookingHistory : r.room_id \in RoomIds(db)
    /\ \A r \in db.Predictions : r.room_id \in RoomIds(db)
    /\ \A r \in db.AllocationLogs :
          r.room_id \in RoomIds(db) /\ r.request_id \in RequestIds(db)

\* save_allocation_logs refused an allocation of a request that does not
\* exist, on a store that holds rooms, a request and an allocation log.
C13_DanglingAllocationRefused ==
    /\ call.op = "save_allocation_logs"
    /\ call.args = <<2>>
    /\ ret.status = "error"
    /\ ret.error = "FOREIGN KEY constraint failed"
    /\ RoomIds(db) = CatalogRoomIds
    /\ RequestIds(db) = {1}
    /\ db.AllocationLogs # {}

-----------------------------------------------------------------------------
(* The import validator.                                                   *)

Slots(s) == {s.synthetic_time_slots[i] : i \in 1..Len(s.synthetic_time_slots)}

\* C14: the validator never returns a partial result. Whatever file is at
\* the path, _load_synthetic_rows_from_csv fails or returns exactly
\* 10 * D * |S| rows, each of a catalog room, a configured slot and an
\* occupied of 0 or 1, no two with the same key; and a file whose rows all
\* pass the row checks but are too few or too many fails on its row count.
C14_NoPartialResult ==
    file.exists =>
        LET r == LoadSyntheticRowsFromCsv(settings, file)
            each == ValidateRows(settings, DictReaderRows(file), 1, {}, <<>>)
        IN  /\ r.ok =>
                /\ Len(r.rows) = 10 * settings.synthetic_seed_days
                                     * Len(settings.synthetic_time_slots)
                /\ \A i \in 1..Len(r.rows) :
                      /\ r.rows[i].room_id \in 1..10
                      /\ r.rows[i].time_slot \in Slots(settings)
                      /\ r.rows[i].occupied \in {0, 1}
                /\ \A i, j \in 1..Len(r.rows) :
                      RowKey(r.rows[i]) = RowKey(r.rows[j]) => i = j
            /\ (/\ file.header = SYNTHETIC_COLUMNS
                /\ each.ok
                /\ Len(each.rows) # 10 * settings.synthetic_seed_days
                                        * Len(settings.synthetic_time_slots))
                  => (~r.ok /\ r.kind = "row_count")

\* seed_synthetic_data() failed on the row count of a file that holds one
\* valid row more than expected, and stored nothing.
C14_ExcessRowRejected ==
    /\ call.op = "seed_synthetic_data"
    /\ ret.status = "error"
    /\ ret.error = "row_count"
    /\ file.exists
    /\ Len(file.lines) = ExpectedSyntheticRowCount(settings) + 1
    /\ db.tables = TableNames
    /\ db.BookingHistory = {}

InBand(value, lower, upper) == RatLE(lower, value) /\ RatLE(value, upper)

\* The configurations that are in error: a seed-day count that is not
\* positive, no slot, or a probability outside [0.65, 0.75] on weekdays or
\* [0.30, 0.40] on weekends.
ConfigurationInError(s) ==
    \/ s.synthetic_seed_days <= 0
    \/ Len(s.synthetic_time_slots) = 0
    \/ ~InBand(s.synthetic_weekday_occupied_probability, Rat(65, 100), Rat(75, 100))
    \/ ~InBand(s.synthetic_weekend_occupied_probability, Rat(30, 100), Rat(40, 100))

\* C15: a configuration error fails before any I/O. seed_synthetic_data()
\* under a configuration in error fails with a configuration error and
\* leaves the file (absent, if it was absent) and the store as they were;
\* and under any other configuration it does not fail with that error.
C15_ConfigurationErrorBeforeIO ==
    [][SeedStep =>
         /\ ConfigurationInError(settings) =>
               /\ ret'.status = "error"
               /\ ret'.error = "configuration"
               /\ file' = file
               /\ clock' = clock
               /\ db' = db
         /\ ~ConfigurationInError(settings) =>
               (ret'.status = "error" => ret'.error # "configuration")]_vars

\* seed_synthetic_data() failed on its configuration with an initialized
\* store and no file at the path: there is still no file.
C15_NoFileAfterConfigurationError ==
    /\ call.op = "seed_synthetic_data"
    /\ ret.status = "error"
    /\ ret.error = "configuration"
    /\ ~file.exists
    /\ db.tables = TableNames
    /\ db.Rooms = {}

\* The file holds, for a key the store holds, another occupied value.
FileContradictsStore(s, f, d) ==
    LET loaded == LoadSyntheticRowsFromCsv(s, f)
    IN  /\ loaded.ok
        /\ \E i \in 1..Len(loaded.rows) : \E r \in d.BookingHistory :
              /\ RowKey(r) = RowKey(loaded.rows[i])
              /\ r.occupied # loaded.rows[i].occupied

\* C16: first write wins. Every BookingHistory row stored before a
\* seed_synthetic_data() call is stored, unchanged, after it; a call that
\* imports a file contradicting the store on a key succeeds all the same.
C16_FirstWriteWins ==
    [][SeedStep =>
         /\ db.BookingHistory \subseteq db'.BookingHistory
         /\ (db.tables = TableNames /\ FileContradictsStore(settings, file, db))
               => ret'.status = "ok"]_vars

\* A seed of a file whose every occupied value is the opposite of the
\* stored one: all candidates are reported as duplicates.
C16_ContradictingFileIgnored ==
    /\ call.op = "seed_synthetic_data"
    /\ ret.status = "ok"
    /\ ret.inserted = 0
    /\ ret.duplicates = ExpectedSyntheticRowCount(settings)
    /\ FileContradictsStore(settings, file, db)

\* The number, in the order of the checks, of the first check a raw row
\* fails: 2 fields present, 3 room_id an integer of the catalog, 4 date,
\* 5 time_slot, 6 occupied 0 or 1, 7 key not seen; 0 when it passes all.
EarliestViolatedCheck(s, raw, seen_keys) ==
    IF MissingColumns(raw) # <<>> THEN 2
    ELSE IF PyInt(raw.room_id) = Nothing THEN 3
    ELSE IF PyInt(raw.room_id).some \notin CatalogRoomIds THEN 3
    ELSE IF Strptime(raw.date) = Nothing THEN 4
    ELSE IF raw.time_slot \notin Slots(s) THEN 5
    ELSE IF PyInt(raw.occupied) = Nothing THEN 6
    ELSE IF PyInt(raw.occupied).some \notin {0, 1} THEN 6
    ELSE IF <<PyInt(raw.room_id).some, raw.date, raw.time_slot>> \in seen_keys THEN 7
    ELSE 0

\* The check an error of the validator is about. "Invalid value types" is
\* raised by int(room_id) or by int(occupied).
ReportedCheck(kind, raw) ==
    CASE kind = "missing_values" -> 2
      [] kind = "invalid_value_types" -> IF PyInt(raw.room_id) = Nothing THEN 3 ELSE 6
      [] kind = "room_id_out_of_range" -> 3
      [] kind = "invalid_date_format" -> 4
      [] kind = "invalid_time_slot" -> 5
      [] kind = "occupied_not_0_or_1" -> 6
      [] kind = "duplicate_key" -> 7
      [] OTHER -> 0

\* The keys of the first n rows.
KeysBefore(rows, n) == {RowKey(ParsedRow(rows[i])) : i \in 1..n}

\* C18: the checks are applied in the stated order. When
\* seed_synthetic_data() fails on a row of the file, the error is that of
\* the earliest check that row violates.
C18_EarliestViolatedCheckReported ==
    (/\ call.op = "seed_synthetic_data"
     /\ ret.status = "error"
     /\ "line" \in DOMAIN ret)
        => LET rows == DictReaderRows(file)
               k == ret.line - 1
           IN  ReportedCheck(ret.error, rows[k])
                   = EarliestViolatedCheck(settings, rows[k], KeysBefore(rows, k - 1))

\* A row with a date that is no date and an occupied that is no integer was
\* rejected for its value types.
C18_TypeErrorBeforeDateError ==
    /\ call.op = "seed_synthetic_data"
    /\ ret.status = "error"
    /\ ret.error = "invalid_value_types"
    /\ ret.line = 2
    /\ Strptime(file.lines[1].date) = Nothing
    /\ PyInt(file.lines[1].room_id) # Nothing

\* C18, the half that holds: across rows, the row the error is about is the
\* first row that violates a check.
C18_FirstOffendingRowReported ==
    (/\ call.op = "seed_synthetic_data"
     /\ ret.status = "error"
     /\ "line" \in DOMAIN ret)
        => LET rows == DictReaderRows(file)
           IN  /\ EarliestViolatedCheck(settings, rows[ret.line - 1],
                                         KeysBefore(rows, ret.line - 2)) # 0
               /\ \A k \in 1..(ret.line - 2) :
                     EarliestViolatedCheck(settings, rows[k], KeysBefore(rows, k - 1)) = 0

-----------------------------------------------------------------------------
(* Stored probabilities.                                                   *)

IsProbability(q) == RatLE(Rat(0, 1), q) /\ RatLE(q, Rat(1, 1))

\* C17: every stored prediction has an idle_probability in [0, 1]. In
\* every reachable state no Predictions row, and no row that
\* list_idle_predictions returns, has an idle_probability below 0 or above 1.
C17_StoredProbabilityInUnitInterval ==
    /\ \A p \in db.Predictions : IsProbability(p.idle_probability.some)
    /\ \A date \in {DateA, DateB} :
          LET listed == ListIdlePredictions(db, date, SlotA)
          IN  listed.ok =>
                \A i \in 1..Len(listed.value) :
                    IsProbability(listed.value[i].idle_probability.some)

\* save_prediction returned normally and list_idle_predictions returns a
\* probability above 1.
C17_ProbabilityAboveOneListed ==
    /\ call.op = "save_prediction"
    /\ ret.status = "ok"
    /\ LET listed == ListIdlePredictions(db, DateA, SlotA)
       IN  /\ listed.ok
           /\ \E i \in 1..Len(listed.value) :
                 RatLT(Rat(1, 1), listed.value[i].idle_probability.some)

-----------------------------------------------------------------------------
(* The migration of a legacy store.                                        *)

Keys(rows) == {RowKey(r) : r \in rows}
WithKey(rows, key) == {r \in rows : RowKey(r) = key}

\* C20: the dedup migration keeps the smallest id. After
\* initialize_database() exactly one BookingHistory row remains for every
\* key the table held, it is the row that had the smallest id of the key,
\* the rows of keys held once are among them unchanged, no row is new, and
\* the unique index exists.
C20_MigrationKeepsSmallestId ==
    [][call'.op = "initialize_database" =>
         /\ ret'.status = "ok"
         /\ db'.BookingHistory \subseteq db.BookingHistory
         /\ \A key \in Keys(db.BookingHistory) :
               \E kept \in WithKey(db.BookingHistory, key) :
                  /\ WithKey(db'.BookingHistory, key) = {kept}
                  /\ \A r \in WithKey(db.BookingHistory, key) : kept.id <= r.id
         /\ "idx_booking_unique_room_date_slot" \in db'.indexes]_vars

\* initialize_database() ran on a store that held a key three times, under
\* the ids 1, 11 and 12: row 1 is left, rows 11 and 12 are gone.
C20_DuplicatesOfFirstRowDeleted ==
    /\ call.op = "initialize_database"
    /\ ret.status = "ok"
    /\ ret.changed
    /\ db.sqlite_sequence["BookingHistory"] = 13
    /\ {r.id : r \in db.BookingHistory} = 1..10

-----------------------------------------------------------------------------
(* Processes seeding at the same time.                                     *)

Returned(w) == workers[w].pc = "returned"

\* C11: concurrent seeding is safe. Whenever two seed_synthetic_data()
\* calls, both made on an initialized store with the import file present,
\* have returned, however their statements were interleaved, one of them at
\* least returned normally and BookingHistory holds exactly 10 * D * |S|
\* rows, no two with the same key, and Rooms exactly the 10 catalog rooms.
C11_ConcurrentSeedingIsSafe ==
    (\A w \in Workers : Returned(w) /\ workers[w].ready)
        => /\ \E w \in Workers : workers[w].ret.status = "ok"
           /\ Cardinality(db.BookingHistory)
                  = 10 * settings.synthetic_seed_days * Len(settings.synthetic_time_slots)
           /\ \A r, q \in db.BookingHistory : RowKey(r) = RowKey(q) => r = q
           /\ RoomIds(db) = 1..10
           /\ Cardinality(db.Rooms) = 10

\* Two calls that began before either had inserted a row have both returned
\* normally: the first to take the lock inserted every row, the other none.
C11_BothSeededAtOnce ==
    /\ \A w \in Workers :
          /\ Returned(w)
          /\ workers[w].ready
          /\ workers[w].began = 0
          /\ workers[w].ret.status = "ok"
    /\ workers[1].ret.inserted = 0
    /\ workers[1].ret.duplicates = ExpectedSyntheticRowCount(settings)
    /\ workers[2].ret.inserted = ExpectedSyntheticRowCount(settings)
    /\ Len(settings.synthetic_time_slots) = 2

InTransaction(w) == workers[w].pc \in {"bulk", "commit"}

\* C19: the catalog comes before the history. A process reaches the bulk
\* insert only with all of the ids 1..10 in Rooms and no history row
\* inserted yet; BookingHistory rows are inserted by that statement alone,
\* and reach the store by the commit of a transaction that has the ten
\* rooms; and a call that fails on missing catalog ids leaves the store as
\* it was.
C19_CatalogBeforeHistory ==
    [][\A w \in Workers :
         /\ (workers[w].pc = "connect" /\ workers'[w].pc = "bulk")
               => /\ CatalogRoomIds \subseteq RoomIds(workers'[w].tx)
                  /\ workers'[w].tx.BookingHistory = db.BookingHistory
         /\ (InTransaction(w) /\ workers'[w].pc = "commit"
                /\ workers'[w].tx.BookingHistory # workers[w].tx.BookingHistory)
               => /\ workers[w].pc = "bulk"
                  /\ CatalogRoomIds \subseteq RoomIds(workers[w].tx)
         /\ db'.BookingHistory # db.BookingHistory
               => /\ \E v \in Workers : workers[v].pc = "commit" /\ db' = workers[v].tx
                  /\ CatalogRoomIds \subseteq RoomIds(db')
         /\ (~Returned(w) /\ workers'[w].pc = "returned"
                /\ workers'[w].ret.status = "error"
                /\ workers'[w].ret.error = "Rooms catalog is missing required room ids")
               => db' = db]_vars

\* A process is about to commit a transaction that inserted the catalog
\* and then the history, into a store that has neither.
C19_CatalogAndHistoryInOneTransaction ==
    \E w \in Workers :
        /\ workers[w].pc = "commit"
        /\ db.tables = TableNames
        /\ db.Rooms = {}
        /\ db.BookingHistory = {}
        /\ RoomIds(workers[w].tx) = CatalogRoomIds
        /\ Cardinality(workers[w].tx.BookingHistory) = ExpectedSyntheticRowCount(settings)

-----------------------------------------------------------------------------
(* Processes generating the CSV at the same time.                          *)

\* C21: first-time generation is not mutually exclusive. A process that
\* found no file at the existence test opens the path for writing when it
\* gets there, without testing again: the file it leaves is the empty one
\* it created or cut, whatever another process had put there, and then the
\* dataset it wrote; so two processes may both generate the file.
C21_GenerationIsNotExclusive ==
    [][\A w \in Workers :
         /\ (workers[w].pc = "generate" /\ workers'[w].pc # "generate")
               => /\ workers[w].generated
                  /\ workers'[w].pc = "write"
                  /\ file'.exists /\ file'.header = <<>> /\ file'.lines = <<>>
                  /\ file'.mtime = clock + 1
         /\ (workers[w].pc = "write" /\ workers'[w].pc # "write")
               => /\ file'.lines = GenerateSyntheticDatasetCsv(settings).lines
                  /\ file'.header = SYNTHETIC_COLUMNS
                  /\ file'.mtime = clock + 1]_vars

\* Both processes found no file, both opened the path for writing and both
\* wrote the dataset: the file has been created or cut twice and written
\* twice.
C21_BothGenerated ==
    /\ \A w \in Workers :
          /\ workers[w].generated
          /\ workers[w].pc \in {"load", "connect", "bulk", "commit"}
    /\ clock = 4
    /\ file.exists
    /\ file.mtime = 4

-----------------------------------------------------------------------------
(* The generator against the validator.                                    *)

\* C22: generator and validator agree. Under every configuration that
\* _validate_synthetic_configuration accepts, a seed_synthetic_data() call
\* that generated the file does not fail on that file: it returns normally,
\* or fails on the store alone.
C22_GeneratedFileIsAccepted ==
    (/\ call.op = "seed_synthetic_data"
     /\ "generated" \in DOMAIN ret
     /\ ret.generated)
        => /\ LoadSyntheticRowsFromCsv(settings, file).ok
           /\ ret.status = "error" => ret.error = "no such table"

\* The slot list names one slot twice: the first seeding of an initialized
\* store generated the file and rejected its second data row, on line 3, as
\* a repeated key.
C22_RepeatedSlotFailsOnOwnFile ==
    /\ call.op = "seed_synthetic_data"
    /\ settings.synthetic_time_slots = <<SlotA, SlotA>>
    /\ ValidateSyntheticConfiguration(settings) = None
    /\ ret.status = "error"
    /\ ret.generated
    /\ ret.error = "duplicate_key"
    /\ ret.line = 3
    /\ file = EnsureSyntheticDatasetExists(settings, NoFile, 0)
    /\ db.tables = TableNames
    /\ db.BookingHistory = {}

\* C22, the half that holds: when no slot is named twice, the call that
\* generated the file does not fail on it.
C22_DistinctSlotsFileIsAccepted ==
    (/\ call.op = "seed_synthetic_data"
     /\ "generated" \in DOMAIN ret
     /\ ret.generated
     /\ Cardinality(Slots(settings)) = Len(settings.synthetic_time_slots))
        => /\ LoadSyntheticRowsFromCsv(settings, file).ok
           /\ ret.status = "error" => ret.error = "no such table"

====
